---- MODULE Spec2Model ----
(***************************************************************************)
(* A model of the collaborative whiteboard: the replicated DocumentStore   *)
(* (a Y.Doc with three Y.Maps, IndexedDB persistence and a WebRTC          *)
(* provider), the CanvasEngine that hydrates from it, and the App wiring   *)
(* between the two.                                                        *)
(***************************************************************************)
EXTENDS Integers, Sequences, FiniteSets, TLC

\* ------------------------------------------------------------------------
\* Bounds of the model
\* ------------------------------------------------------------------------
MaxTxns == 2        \* transactions committed after the initial state, over all peers
MaxClients == 3     \* Y.Doc instances constructed (one per page load)
MaxTime == 2        \* the clock ticks at most MaxTime times
MaxPoints == 3      \* a stroke is sampled at most MaxPoints times
MaxPan == 20         \* the viewport is panned at most MaxPan pixels from the origin
MaxWheel == 3       \* the wheel is turned at most MaxWheel times
MaxItems == 12      \* a Quadtree is given at most MaxItems entries

\* The program under observation runs at the local peer; a remote peer is a
\* replica of the Y.Doc on which the same store mutations are issued.
Local == "A"
Peers == {"A", "B"}
Listeners == {"app", "l1"}
ClientIds == 1..MaxClients
UuidPool == <<"u1", "u2", "u3", "u4", "u5", "u6", "u7", "u8">>
Points == {<<100, 50>>}
Texts == {"hi"}
MapNames == {"cards", "connections", "strokes"}

NoId == <<>>

Range(f) == {f[i] : i \in DOMAIN f}

VARIABLES
  doc,             \* per peer: the Y.Doc (struct lists per map key, delete set, pending)
  log,             \* the updates that transactions of the peers have emitted
  clientsUsed,     \* client ids given to Y.Doc instances so far
  uuidNext,        \* index of the next unused crypto.randomUUID() value
  now,             \* Date.now()
  initPc,          \* where the local DocumentStore.init() stands
  persist,         \* state of the local IndexeddbPersistence
  idb,             \* the updates durably stored under the board id
  idbQueue,        \* updates handed to IndexedDB whose write has not completed
  changeListeners, \* DocumentStore.changeListeners
  unsubscribed,    \* listeners whose unsubscribe handle has been called
  calls,           \* per listener: invocations during the latest step
  lastSnap,        \* per listener: the snapshot of its latest invocation
  preReload,       \* the snapshot at the latest reload and whether it still stands
  lastOp,          \* the operation the latest step performed
  eng,             \* the local CanvasEngine
  im,              \* the local InteractionManager
  notified,        \* the persistence callbacks the last handler invoked
  pointer,         \* the pointer: the buttons held and where it is
  awareness,       \* the presence states the local Awareness instance holds, by client id
  held             \* history: the bounds of the entries a Quadtree was given and still holds

vars == <<doc, log, clientsUsed, uuidNext, now, initPc, persist, idb, idbQueue,
          changeListeners, unsubscribed, calls, lastSnap, preReload, lastOp, eng, im,
          notified, pointer, awareness, held>>

persistVars == <<initPc, persist, idb, idbQueue>>
subVars == <<changeListeners, unsubscribed>>
sceneVars == <<eng, im, notified, pointer, awareness, held>>

\* ------------------------------------------------------------------------
\* Y.Map of the yjs library, as document_store.ts uses it
\* ------------------------------------------------------------------------
\* An Item of a Y.Map: its id (client, clock), the map and key it sits under,
\* its origin (the item that was the key's value when it was written) and
\* its content.
Item(c, n, m, k, o, v) == [id |-> <<c, n>>, map |-> m, key |-> k, origin |-> o, val |-> v]

EmptyDoc(c) == [client |-> c, clock |-> 0, lists |-> <<>>, ds |-> {},
                pend |-> {}, pendDs |-> {}]

ListOf(d, mk) == IF mk \in DOMAIN d.lists THEN d.lists[mk] ELSE <<>>

ItemsOf(d) == UNION {Range(d.lists[mk]) : mk \in DOMAIN d.lists}

Ids(d) == {it.id : it \in ItemsOf(d)}

IdLeq(a, b) == a[1] < b[1] \/ (a[1] = b[1] /\ a[2] <= b[2])

IndexOfId(L, id) == CHOOSE i \in 1..Len(L) : L[i].id = id

InsertAt(L, i, x) == SubSeq(L, 1, i) \o <<x>> \o SubSeq(L, i + 1, Len(L))

\* The conflict loop of Item.integrate: walk right from the origin; an item
\* with the same origin and a smaller client id stays to the left.
RECURSIVE YataScan(_, _, _, _, _, _)
YataScan(L, it, o, left, conflicting, before) ==
  IF o > Len(L) THEN left
  ELSE LET oi == L[o]
           before2 == before \cup {oi.id}
           conf2 == conflicting \cup {oi.id}
       IN IF oi.origin = it.origin
          THEN IF oi.id[1] < it.id[1]
               THEN YataScan(L, it, o + 1, o, {}, before2)
               ELSE left
          ELSE IF oi.origin # NoId /\ oi.origin \in before2
               THEN IF oi.origin \notin conf2
                    THEN YataScan(L, it, o + 1, o, {}, before2)
                    ELSE YataScan(L, it, o + 1, left, conf2, before2)
               ELSE left

\* Mutant: the arriving item always goes last (arrival order decides).
YataLeftArrival(L, it) == Len(L)

YataLeft(L, it) ==
  LET left0 == IF it.origin = NoId THEN 0 ELSE IndexOfId(L, it.origin)
  IN YataScan(L, it, left0 + 1, left0, {}, {})

\* Item.integrate for a map entry: the item that ends up last is the key's
\* value and its left neighbour is deleted; an item that does not end up
\* last is deleted itself.
IntegrateItem(d, it) ==
  LET mk == <<it.map, it.key>>
      L == ListOf(d, mk)
      left == YataLeft(L, it)
      L2 == InsertAt(L, left, it)
      ds2 == IF left = Len(L)
             THEN (IF left > 0 THEN d.ds \cup {L[left].id} ELSE d.ds)
             ELSE d.ds \cup {it.id}
  IN [d EXCEPT !.lists = [x \in DOMAIN d.lists \cup {mk} |-> IF x = mk THEN L2 ELSE d.lists[x]],
               !.ds = ds2]

\* Structs whose dependencies are missing wait in the pending set.
RECURSIVE IntegrateAll(_, _)
IntegrateAll(d, structs) ==
  LET known == Ids(d)
      fresh == {it \in structs : it.id \notin known}
      ready == {it \in fresh :
                  /\ it.id[2] = 0 \/ <<it.id[1], it.id[2] - 1>> \in known
                  /\ it.origin = NoId \/ it.origin \in known}
  IN IF ready = {} THEN [d EXCEPT !.pend = fresh]
     ELSE LET it == CHOOSE x \in ready : \A y \in ready : IdLeq(x.id, y.id)
          IN IntegrateAll(IntegrateItem(d, it), fresh \ {it})

\* Y.applyUpdate: integrate the structs, then apply the delete set; deletes
\* of items not yet integrated are retained.
ApplyUpdate(d, u) ==
  LET d1 == IntegrateAll(d, u.structs \cup d.pend)
      allDs == u.ds \cup d.pendDs
      here == allDs \cap Ids(d1)
  IN [d1 EXCEPT !.ds = d1.ds \cup here, !.pendDs = allDs \ here]

LastItem(d, m, k) == LET L == ListOf(d, <<m, k>>) IN L[Len(L)]

\* Y.Map.has
YHas(d, m, k) ==
  /\ Len(ListOf(d, <<m, k>>)) > 0
  /\ LastItem(d, m, k).id \notin d.ds

\* Y.Map.get of a key that is present
YGet(d, m, k) == LastItem(d, m, k).val

\* Y.Map.set inside a local transaction
YSet(d, m, k, v) ==
  LET L == ListOf(d, <<m, k>>)
      o == IF Len(L) = 0 THEN NoId ELSE L[Len(L)].id
  IN IntegrateItem([d EXCEPT !.clock = @ + 1], Item(d.client, d.clock, m, k, o, v))

\* Y.Map.delete inside a local transaction
YDelete(d, m, k) ==
  IF YHas(d, m, k) THEN [d EXCEPT !.ds = @ \cup {LastItem(d, m, k).id}] ELSE d

YKeys(d, m) == {mk[2] : mk \in {x \in DOMAIN d.lists : x[1] = m /\ YHas(d, m, x[2])}}

\* DocumentStore.getSnapshot
getSnapshot(d) ==
  [cards       |-> [k \in YKeys(d, "cards") |-> YGet(d, "cards", k)],
   connections |-> [k \in YKeys(d, "connections") |-> YGet(d, "connections", k)],
   strokes     |-> [k \in YKeys(d, "strokes") |-> YGet(d, "strokes", k)]]

\* The maps a transaction changed (their observers are called) and the
\* update it emits.
ChangedMaps(d0, d1) ==
  {it.map : it \in {x \in ItemsOf(d1) : x.id \notin Ids(d0) \/ (x.id \in d1.ds /\ x.id \notin d0.ds)}}

UpdateOf(d0, d1) ==
  [structs |-> {x \in ItemsOf(d1) : x.id \notin Ids(d0)}, ds |-> d1.ds \ d0.ds]

\* Y.encodeStateAsUpdate: everything the doc holds
StateAsUpdate(d) == [structs |-> ItemsOf(d) \cup d.pend, ds |-> d.ds \cup d.pendDs]

\* ------------------------------------------------------------------------
\* Quadtree (utils/quadtree): a node is [bounds, level, objects, nodes];
\* nodes is empty or holds the four quadrants NE, NW, SW, SE.
\* ------------------------------------------------------------------------
capacity == 10
maxLevel == 5

Rect(x, y, width, height) == [x |-> x, y |-> y, width |-> width, height |-> height]

Quadtree(bounds, level) == [bounds |-> bounds, level |-> level, objects |-> <<>>, nodes |-> <<>>]

RemoveAt(s, i) == SubSeq(s, 1, i - 1) \o SubSeq(s, i + 1, Len(s))

\* Mutant: the quadrant is chosen by the rectangle's corner alone.
getIndexByCorner(q, rect) ==
  LET verticalMidpoint == q.bounds.x + (q.bounds.width \div 2)
      horizontalMidpoint == q.bounds.y + (q.bounds.height \div 2)
  IN IF rect.x < verticalMidpoint
     THEN (IF rect.y < horizontalMidpoint THEN 1 ELSE 2)
     ELSE (IF rect.y < horizontalMidpoint THEN 0 ELSE 3)

\* -1 unless the rectangle fits strictly inside one quadrant. Only called
\* on a node that has quadrants (levels below maxLevel), whose width and
\* height are even.
getIndex(q, rect) ==
  LET verticalMidpoint == q.bounds.x + (q.bounds.width \div 2)
      horizontalMidpoint == q.bounds.y + (q.bounds.height \div 2)
      topQuadrant == rect.y < horizontalMidpoint /\ rect.y + rect.height < horizontalMidpoint
      bottomQuadrant == rect.y > horizontalMidpoint
  IN IF rect.x < verticalMidpoint /\ rect.x + rect.width < verticalMidpoint
     THEN (IF topQuadrant THEN 1 ELSE IF bottomQuadrant THEN 2 ELSE -1)
     ELSE IF rect.x > verticalMidpoint
          THEN (IF topQuadrant THEN 0 ELSE IF bottomQuadrant THEN 3 ELSE -1)
          ELSE -1

split(q) ==
  LET subWidth == q.bounds.width \div 2
      subHeight == q.bounds.height \div 2
      x == q.bounds.x
      y == q.bounds.y
  IN [q EXCEPT !.nodes = << Quadtree(Rect(x + subWidth, y, subWidth, subHeight), q.level + 1),
                            Quadtree(Rect(x, y, subWidth, subHeight), q.level + 1),
                            Quadtree(Rect(x, y + subHeight, subWidth, subHeight), q.level + 1),
                            Quadtree(Rect(x + subWidth, y + subHeight, subWidth, subHeight),
                                     q.level + 1) >>]

intersects(a, b) ==
  /\ a.x < b.x + b.width /\ a.x + a.width > b.x
  /\ a.y < b.y + b.height /\ a.y + a.height > b.y

RECURSIVE insert(_, _, _)
RECURSIVE Redistribute(_, _)
insert(q, item, itemBounds) ==
  LET index == IF q.nodes # <<>> THEN getIndex(q, itemBounds) ELSE -1
  IN IF index # -1
     THEN [q EXCEPT !.nodes[index + 1] = insert(@, item, itemBounds)]
     ELSE LET q1 == [q EXCEPT !.objects = Append(@, [item |-> item, bounds |-> itemBounds])]
          IN IF Len(q1.objects) > capacity /\ q1.level < maxLevel
             THEN Redistribute(IF q1.nodes = <<>> THEN split(q1) ELSE q1, 1)
             ELSE q1

\* Mutant: an object moved down into a quadrant stays in the node as well.
RECURSIVE RedistributeCopies(_, _)
RedistributeCopies(q, i) ==
  IF i > Len(q.objects) THEN q
  ELSE LET obj == q.objects[i]
           index == getIndex(q, obj.bounds)
       IN IF index # -1
          THEN RedistributeCopies([q EXCEPT !.nodes[index + 1] = insert(@, obj.item, obj.bounds)],
                                  i + 1)
          ELSE RedistributeCopies(q, i + 1)

\* insert's loop that moves the objects that fit a quadrant down
Redistribute(q, i) ==
  IF i > Len(q.objects) THEN q
  ELSE LET obj == q.objects[i]
           index == getIndex(q, obj.bounds)
       IN IF index # -1
          THEN Redistribute([q EXCEPT !.objects = RemoveAt(@, i),
                                      !.nodes[index + 1] = insert(@, obj.item, obj.bounds)], i)
          ELSE Redistribute(q, i + 1)

RECURSIVE retrieve(_, _)
RECURSIVE RetrieveNodes(_, _, _)
retrieve(q, requestBounds) ==
  LET index == IF q.nodes # <<>> THEN getIndex(q, requestBounds) ELSE -1
      below == IF q.nodes = <<>> THEN <<>>
               ELSE IF index # -1 THEN retrieve(q.nodes[index + 1], requestBounds)
               ELSE RetrieveNodes(q, requestBounds, 1)
  IN below \o [i \in 1..Len(q.objects) |-> q.objects[i].item]

\* retrieve's loop over the quadrants the request overlaps
RetrieveNodes(q, requestBounds, i) ==
  IF i > Len(q.nodes) THEN <<>>
  ELSE (IF intersects(q.nodes[i].bounds, requestBounds)
        THEN retrieve(q.nodes[i], requestBounds) ELSE <<>>)
       \o RetrieveNodes(q, requestBounds, i + 1)

\* The items of the node followed by those of its quadrants
RECURSIVE getAll(_)
RECURSIVE GetAllNodes(_, _)
getAll(q) == [i \in 1..Len(q.objects) |-> q.objects[i].item] \o GetAllNodes(q, 1)

GetAllNodes(q, i) ==
  IF i > Len(q.nodes) THEN <<>> ELSE getAll(q.nodes[i]) \o GetAllNodes(q, i + 1)

\* [found, q]: the first entry with the id, in this node or else in the
\* first quadrant that holds one, is removed.
RECURSIVE removeById(_, _)
RECURSIVE RemoveInNodes(_, _, _)
removeById(q, id) ==
  LET hits == {i \in 1..Len(q.objects) : q.objects[i].item.id = id}
  IN IF hits # {}
     THEN [found |-> TRUE,
           q |-> [q EXCEPT !.objects = RemoveAt(@, CHOOSE i \in hits : \A j \in hits : i <= j)]]
     ELSE RemoveInNodes(q, id, 1)

RemoveInNodes(q, id, i) ==
  IF i > Len(q.nodes) THEN [found |-> FALSE, q |-> q]
  ELSE LET r == removeById(q.nodes[i], id)
       IN IF r.found THEN [found |-> TRUE, q |-> [q EXCEPT !.nodes[i] = r.q]]
          ELSE RemoveInNodes(q, id, i + 1)

\* Mutant: the entry stays in the index.
removeNothing(q, itemId) == q

remove(q, itemId) == removeById(q, itemId).q

\* ------------------------------------------------------------------------
\* CanvasEngine: the runtime scene. Positions are whole pixels; the
\* viewport scale is in thousandths; stroke points are [x, y, pressure] in
\* tenths (of a pixel, of full pressure). Pixi graphics, the shape of the
\* mouse cursor and the selection visuals are not state the code reads back
\* and are left out.
\* ------------------------------------------------------------------------
null == <<>>
ScaleUnit == 1000
Tenth == 10
cardWidth == 200
cardHeight == 150
gridSize == 50

Put(f, k, v) == [x \in DOMAIN f \cup {k} |-> IF x = k THEN v ELSE f[x]]
Drop(f, k) == [x \in DOMAIN f \ {k} |-> f[x]]

\* Iteration order of a map's keys: ids in the order they were drawn.
BoardIds == <<"u0", "w0">>
CrowdIds == <<"k1", "k2", "k3", "k4", "k5", "k6", "k7", "k8", "k9">>
IdRank(id) ==
  LET all == BoardIds \o CrowdIds \o UuidPool
  IN CHOOSE i \in 1..Len(all) : all[i] = id
RECURSIVE InOrder(_)
InOrder(S) ==
  IF S = {} THEN <<>>
  ELSE LET k == CHOOSE x \in S : \A y \in S : IdRank(x) <= IdRank(y)
       IN <<k>> \o InOrder(S \ {k})

worldBounds == Rect(-50000, -50000, 100000, 100000)

\* The engine after its constructor and init()
NewEngine ==
  [viewport |-> [x |-> 0, y |-> 0, scale |-> ScaleUnit, vx |-> 0, vy |-> 0,
                 isDragging |-> FALSE, lastPointerX |-> 0, lastPointerY |-> 0],
   world |-> [x |-> 0, y |-> 0, scale |-> ScaleUnit],
   cards |-> <<>>, cardOrder |-> <<>>, connections |-> <<>>,
   strokes |-> <<>>, currentStroke |-> null, remoteCursors |-> <<>>,
   strokeQuadtree |-> Quadtree(Rect(worldBounds.x * Tenth, worldBounds.y * Tenth,
                                    worldBounds.width * Tenth, worldBounds.height * Tenth), 0),
   cardQuadtree |-> Quadtree(worldBounds, 0)]

\* worldContainer.toLocal of a screen point
toLocal(e, g) ==
  << ((g[1] - e.world.x) * ScaleUnit) \div e.world.scale,
     ((g[2] - e.world.y) * ScaleUnit) \div e.world.scale >>

\* Mutant: createCard builds the card whether or not the id is known.
Engine_createCardAgain(e, cardId, x, y, textContent) ==
  [e EXCEPT
     !.cards = Put(@, cardId,
                   [x |-> x, y |-> y, vx |-> 0, vy |-> 0, targetX |-> x, targetY |-> y,
                    isDragging |-> FALSE, dragOffsetX |-> 0, dragOffsetY |-> 0,
                    text |-> textContent]),
     !.cardOrder = IF cardId \in DOMAIN e.cards THEN @ ELSE Append(@, cardId),
     !.cardQuadtree = insert(@, [id |-> cardId], Rect(x, y, cardWidth, cardHeight))]

Engine_createCard(e, cardId, x, y, textContent) ==
  IF cardId \in DOMAIN e.cards THEN e
  ELSE [e EXCEPT
          !.cards = Put(@, cardId,
                        [x |-> x, y |-> y, vx |-> 0, vy |-> 0, targetX |-> x, targetY |-> y,
                         isDragging |-> FALSE, dragOffsetX |-> 0, dragOffsetY |-> 0,
                         text |-> textContent]),
          !.cardOrder = Append(@, cardId),
          !.cardQuadtree = insert(@, [id |-> cardId], Rect(x, y, cardWidth, cardHeight))]

\* Mutant: the card is moved to the incoming position at once.
Engine_updateCardPositionSnap(e, cardId, x, y) ==
  IF cardId \in DOMAIN e.cards
  THEN [e EXCEPT !.cards[cardId].x = x, !.cards[cardId].y = y,
                 !.cards[cardId].targetX = x, !.cards[cardId].targetY = y]
  ELSE e

\* Mutant: an incoming position is ignored.
Engine_updateCardPositionIgnored(e, cardId, x, y) == e

Engine_updateCardPosition(e, cardId, x, y) ==
  IF cardId \in DOMAIN e.cards /\ ~e.cards[cardId].isDragging
  THEN [e EXCEPT !.cards[cardId].targetX = x,
                 !.cards[cardId].targetY = y,
                 !.cardQuadtree = insert(remove(@, cardId), [id |-> cardId],
                                         Rect(x, y, cardWidth, cardHeight))]
  ELSE e

updateCardText(e, cardId, text) ==
  IF cardId \in DOMAIN e.cards THEN [e EXCEPT !.cards[cardId].text = text] ELSE e

\* Mutant: a card missing from the snapshot stays in the scene.
removeCardKeeps(e, cardId) == e

removeCard(e, cardId) ==
  IF cardId \in DOMAIN e.cards
  THEN [e EXCEPT !.cards = Drop(@, cardId),
                 !.cardOrder = SelectSeq(@, LAMBDA id : id # cardId)]
  ELSE e

\* hydrate, 1: cards the snapshot no longer holds are removed, new ones
\* created, the others get the snapshot's position as target (unless they
\* are being dragged) and its text.
RECURSIVE HydrateCards(_, _, _)
HydrateCards(e, cards, ids) ==
  IF ids = <<>> THEN e
  ELSE LET c == cards[Head(ids)]
           e1 == IF c.id \notin DOMAIN e.cards
                 THEN Engine_createCard(e, c.id, c.x, c.y, c.text)
                 ELSE updateCardText(
                        IF ~e.cards[c.id].isDragging
                        THEN Engine_updateCardPosition(e, c.id, c.x, c.y) ELSE e,
                        c.id, c.text)
       IN HydrateCards(e1, cards, Tail(ids))

RECURSIVE RemoveCards(_, _)
RemoveCards(e, ids) ==
  IF ids = <<>> THEN e ELSE RemoveCards(removeCard(e, Head(ids)), Tail(ids))

\* Mutant: every stroke of the snapshot gets a new runtime stroke.
hydrateEveryStroke(e, cards, connections, strokes) ==
  LET e1 == RemoveCards(e, SelectSeq(e.cardOrder, LAMBDA id : id \notin DOMAIN cards))
      e2 == HydrateCards(e1, cards, InOrder(DOMAIN cards))
      kept == SelectSeq(e2.strokes, LAMBDA s : s.id \in DOMAIN strokes)
      added == InOrder(DOMAIN strokes)
  IN [e2 EXCEPT
        !.connections = [k \in DOMAIN connections |->
                           IF k \in DOMAIN e2.connections THEN e2.connections[k]
                           ELSE [id |-> connections[k].id, fromId |-> connections[k].fromId,
                                 toId |-> connections[k].toId]],
        !.strokes = kept \o [i \in 1..Len(added) |->
                               [id |-> strokes[added[i]].id, points |-> strokes[added[i]].points,
                                cur |-> FALSE]]]

\* hydrate(cards, connections, strokes), the arguments being the values of
\* the snapshot's three maps
hydrate(e, cards, connections, strokes) ==
  LET e1 == RemoveCards(e, SelectSeq(e.cardOrder, LAMBDA id : id \notin DOMAIN cards))
      e2 == HydrateCards(e1, cards, InOrder(DOMAIN cards))
      kept == SelectSeq(e2.strokes, LAMBDA s : s.id \in DOMAIN strokes)
      existingStrokeIds == {kept[i].id : i \in 1..Len(kept)}
      added == InOrder(DOMAIN strokes \ existingStrokeIds)
  IN [e2 EXCEPT
        !.connections = [k \in DOMAIN connections |->
                           IF k \in DOMAIN e2.connections THEN e2.connections[k]
                           ELSE [id |-> connections[k].id, fromId |-> connections[k].fromId,
                                 toId |-> connections[k].toId]],
        !.strokes = kept \o [i \in 1..Len(added) |->
                               [id |-> strokes[added[i]].id, points |-> strokes[added[i]].points,
                                cur |-> FALSE]]]

\* The App's store listener, called n times with the same snapshot
RECURSIVE HydrateN(_, _, _)
HydrateN(e, snap, n) ==
  IF n = 0 THEN e
  ELSE HydrateN(hydrate(e, snap.cards, snap.connections, snap.strokes), snap, n - 1)

\* ------------------------------------------------------------------------
\* DocumentStore
\* ------------------------------------------------------------------------
\* A card record. width, height, color and imageUrl are written once by
\* createCard and never read by the code modelled here; they are left out.
CardOf(id, p, t, at) ==
  [id |-> id, x |-> p[1], y |-> p[2], text |-> t, createdAt |-> at, updatedAt |-> at]

\* { ...card, ...updates }
Spread(card, updates) ==
  [f \in DOMAIN card |-> IF f \in DOMAIN updates THEN updates[f] ELSE card[f]]

\* `${fromId}-${toId}`
ConnId(fromId, toId) == fromId \o "-" \o toId

StrokePoints == {<< <<0, 0, 5>>, <<10, 10, 5>> >>}

\* The board the peers start from holds one card, written by an earlier
\* session (client 0) and stored in the local database.
Card0 == CardOf("u0", <<0, 0>>, "", 0)
Update0 == [structs |-> {Item(0, 0, "cards", "u0", NoId, Card0)}, ds |-> {}]

DrawnUuids == {UuidPool[i] : i \in 1..(uuidNext - 1)} \cup {"u0"}
ConnIds == {ConnId(a, b) : a, b \in DrawnUuids}

Op(name, r, k) == [op |-> name, peer |-> r, key |-> k]

\* Date.now(): the clock advances in steps of TickMs milliseconds
TickMs == 250
DateNow == now * TickMs

NoCalls == [l \in Listeners |-> 0]
EmptySnapshot == getSnapshot(EmptyDoc(0))
Superseded == [valid |-> FALSE, snap |-> EmptySnapshot]
HasContent(u) == u.structs # {} \/ u.ds # {}

\* What a handler running at peer r reads and writes; calls and notified
\* count the listener and persistence-callback invocations it causes.
\* new Awareness(doc), then setLocalStateField('user', ...): the local
\* client is present from the start
NewAwareness == [c \in {doc[Local].client} |-> null]

World(r) ==
  [peer |-> r, doc |-> doc[r], log |-> log, idbQueue |-> idbQueue, calls |-> NoCalls,
   lastSnap |-> lastSnap, eng |-> eng, uuidNext |-> uuidNext, transacted |-> FALSE,
   notified |-> <<>>, awareness |-> awareness, im |-> im]

\* The three observers init() registers each call notifyListeners: every
\* listener is invoked once per map the transaction changed, with the
\* snapshot after the transaction. The App's listener hydrates the engine.
Observe(w, ch) ==
  LET n == IF initPc = "ready" THEN Cardinality(ch) ELSE 0
      data == getSnapshot(w.doc)
  IN [w EXCEPT
        !.calls = [l \in Listeners |-> IF l \in changeListeners THEN w.calls[l] + n ELSE 0],
        !.lastSnap = [l \in Listeners |->
                        IF l \in changeListeners /\ n > 0 THEN data ELSE w.lastSnap[l]],
        !.eng = IF "app" \in changeListeners THEN HydrateN(@, data, n) ELSE @]

\* The persistence's 'update' handler: once the database is open every
\* update is handed to IndexedDB; the write completes later.
StoreUpdate(w, u) ==
  [w EXCEPT !.idbQueue = IF persist = "synced" /\ HasContent(u) THEN Append(@, u) ELSE @]

\* A transaction that leaves the doc as d1: at the local peer the observers
\* run, then the 'update' handlers.
AfterTransaction(w, d1) ==
  LET w1 == [w EXCEPT !.doc = d1, !.transacted = TRUE]
  IN IF w.peer = Local
     THEN StoreUpdate(Observe(w1, ChangedMaps(w.doc, d1)), UpdateOf(w.doc, d1))
     ELSE w1

\* doc.transact of a mutation. The update it emits is broadcast; ctx
\* records what the peer's doc held when it committed.
Transact(w, d1) ==
  LET u == UpdateOf(w.doc, d1)
  IN [AfterTransaction(w, d1) EXCEPT
        !.log = IF HasContent(u)
                THEN @ \cup {[structs |-> u.structs, ds |-> u.ds, ctx |-> Ids(w.doc)]}
                ELSE @]

\* Mutant: every card is created under one fixed id.
createCardFixedId(w, p) ==
  [Transact(w, YSet(w.doc, "cards", UuidPool[1], CardOf(UuidPool[1], p, "", DateNow)))
     EXCEPT !.uuidNext = @ + 1]

createCard(w, p) ==
  LET id == UuidPool[w.uuidNext]
  IN [Transact(w, YSet(w.doc, "cards", id, CardOf(id, p, "", DateNow))) EXCEPT !.uuidNext = @ + 1]

updateCardPosition(w, id, p) ==
  IF ~YHas(w.doc, "cards", id) THEN w
  ELSE Transact(w, YSet(w.doc, "cards", id,
         Spread(YGet(w.doc, "cards", id), [x |-> p[1], y |-> p[2], updatedAt |-> DateNow])))

\* Mutant: no early return when the card is absent.
updateCardNoGuard(w, id, updates) ==
  Transact(w, YSet(w.doc, "cards", id,
    Spread(IF YHas(w.doc, "cards", id) THEN Spread(YGet(w.doc, "cards", id), updates)
           ELSE updates,
           [updatedAt |-> DateNow])))

updateCard(w, id, updates) ==
  IF ~YHas(w.doc, "cards", id) THEN w
  ELSE Transact(w, YSet(w.doc, "cards", id,
         Spread(Spread(YGet(w.doc, "cards", id), updates), [updatedAt |-> DateNow])))

deleteCard(w, id) == Transact(w, YDelete(w.doc, "cards", id))

createConnection(w, fromId, toId) ==
  LET id == ConnId(fromId, toId)
  IN IF YHas(w.doc, "connections", id) THEN w
     ELSE Transact(w, YSet(w.doc, "connections", id,
                           [id |-> id, fromId |-> fromId, toId |-> toId]))

deleteConnection(w, id) == Transact(w, YDelete(w.doc, "connections", id))

addStroke(w, stroke) == Transact(w, YSet(w.doc, "strokes", stroke.id, stroke))

deleteStroke(w, id) == Transact(w, YDelete(w.doc, "strokes", id))

StrokeOf(id, pts) == [id |-> id, points |-> pts, color |-> 16777215, width |-> 2]

\* The handler returns: the state it leaves behind.
Returns(w, op) ==
  /\ doc' = [doc EXCEPT ![w.peer] = w.doc]
  /\ log' = w.log
  /\ idbQueue' = w.idbQueue
  /\ calls' = w.calls
  /\ lastSnap' = w.lastSnap
  /\ eng' = w.eng
  /\ uuidNext' = w.uuidNext
  /\ notified' = w.notified
  /\ awareness' = w.awareness
  /\ im' = w.im
  /\ preReload' = IF w.transacted /\ w.peer = Local THEN Superseded ELSE preReload
  /\ lastOp' = op
  /\ UNCHANGED <<clientsUsed, now, initPc, persist, idb, subVars, held>>

\* Mutations are called on an initialised store; the number of committed
\* transactions is bounded.
CanMutate(r) == (r = Local => initPc = "ready") /\ Cardinality(log) < MaxTxns

\* A host calling the store's mutations at peer r
Mutation(r) ==
  /\ CanMutate(r)
  /\ UNCHANGED pointer
  /\ \/ \E p \in Points :
          /\ uuidNext <= Len(UuidPool)
          /\ Returns(createCard(World(r), p), Op("createCard", r, UuidPool[uuidNext]))
     \/ \E id \in DrawnUuids, p \in Points :
          Returns(updateCardPosition(World(r), id, p), Op("updateCardPosition", r, id))
     \/ \E id \in DrawnUuids, t \in Texts :
          Returns(updateCard(World(r), id, [text |-> t]), Op("updateCard", r, id))
     \/ \E id \in DrawnUuids : Returns(deleteCard(World(r), id), Op("deleteCard", r, id))
     \/ \E a, b \in DrawnUuids :
          Returns(createConnection(World(r), a, b), Op("createConnection", r, ConnId(a, b)))
     \/ \E id \in ConnIds :
          Returns(deleteConnection(World(r), id), Op("deleteConnection", r, id))
     \/ \E id \in DrawnUuids, pts \in StrokePoints :
          Returns(addStroke(World(r), StrokeOf(id, pts)), Op("addStroke", r, id))
     \/ \E id \in DrawnUuids : Returns(deleteStroke(World(r), id), Op("deleteStroke", r, id))

\* ------------------------------------------------------------------------
\* Replication: the WebRTC provider applies an update received from a peer
\* ------------------------------------------------------------------------
Receive(r, u) ==
  /\ r = Local => initPc # "new"
  /\ Returns(AfterTransaction(World(r), ApplyUpdate(doc[r], u)), Op("receive", r, ""))
  /\ UNCHANGED pointer

\* One broadcast update arrives (after any delay, in any order, any number
\* of times).
Deliver(r, u) == Receive(r, [structs |-> u.structs, ds |-> u.ds])

\* Sync step 2 on (re)connection: peer s answers with its whole state as one
\* update.
Sync(r, s) ==
  /\ s # r
  /\ s = Local => initPc # "new"
  /\ Receive(r, StateAsUpdate(doc[s]))

\* ------------------------------------------------------------------------
\* Initialisation, persistence and reload at the local peer
\* ------------------------------------------------------------------------
RECURSIVE ApplyAll(_, _)
ApplyAll(d, us) == IF us = <<>> THEN d ELSE ApplyAll(ApplyUpdate(d, Head(us)), Tail(us))

\* init() up to its await: the persistence and the provider are created.
InitStart ==
  /\ initPc = "new"
  /\ initPc' = "awaitSynced"
  /\ persist' = "opening"
  /\ calls' = NoCalls
  /\ lastOp' = Op("init", Local, "")
  /\ UNCHANGED <<doc, log, clientsUsed, uuidNext, now, idb, idbQueue, subVars,
                 lastSnap, preReload, sceneVars>>

\* The database opens: the doc's state is handed to the log, the stored
\* updates are applied in one transaction, 'synced' fires and init() runs on
\* to register the three observers.
PersistSynced ==
  /\ initPc = "awaitSynced"
  /\ persist = "opening"
  /\ persist' = "synced"
  /\ idbQueue' = Append(idbQueue, StateAsUpdate(doc[Local]))
  /\ doc' = [doc EXCEPT ![Local] = ApplyAll(@, idb)]
  /\ initPc' = "ready"
  /\ calls' = NoCalls
  /\ lastOp' = Op("synced", Local, "")
  /\ UNCHANGED <<log, clientsUsed, uuidNext, now, idb, subVars, lastSnap, preReload,
                 sceneVars>>

\* The database cannot be opened: 'synced' never fires.
PersistFail ==
  /\ persist = "opening"
  /\ persist' = "failed"
  /\ calls' = NoCalls
  /\ lastOp' = Op("persistFail", Local, "")
  /\ UNCHANGED <<doc, log, clientsUsed, uuidNext, now, initPc, idb, idbQueue, subVars,
                 lastSnap, preReload, sceneVars>>

\* An IndexedDB write completes.
IdbWriteDone ==
  /\ idbQueue # <<>>
  /\ idb' = Append(idb, Head(idbQueue))
  /\ idbQueue' = Tail(idbQueue)
  /\ calls' = NoCalls
  /\ lastOp' = Op("idbWrite", Local, "")
  /\ UNCHANGED <<doc, log, clientsUsed, uuidNext, now, initPc, persist, subVars,
                 lastSnap, preReload, sceneVars>>

\* The page is reloaded: a new DocumentStore with a new Y.Doc (a new random
\* client id) under the same board id. Writes still in flight are lost.
Reload ==
  /\ Cardinality(clientsUsed) < MaxClients
  /\ \E c \in ClientIds \ clientsUsed :
       /\ doc' = [doc EXCEPT ![Local] = EmptyDoc(c)]
       /\ clientsUsed' = clientsUsed \cup {c}
  /\ preReload' = [valid |-> initPc = "ready", snap |-> getSnapshot(doc[Local])]
  /\ initPc' = "new"
  /\ persist' = "none"
  /\ idbQueue' = <<>>
  /\ changeListeners' = {}
  /\ unsubscribed' = {}
  /\ calls' = NoCalls
  /\ lastSnap' = [l \in Listeners |-> EmptySnapshot]
  /\ lastOp' = Op("reload", Local, "")
  /\ UNCHANGED <<log, uuidNext, now, idb, sceneVars>>

\* ------------------------------------------------------------------------
\* Subscription
\* ------------------------------------------------------------------------
\* A host component subscribes once init() has returned (as App.initApp does).
subscribe(l) ==
  /\ initPc = "ready"
  /\ l \notin changeListeners
  /\ changeListeners' = changeListeners \cup {l}
  /\ unsubscribed' = unsubscribed \ {l}
  /\ calls' = [NoCalls EXCEPT ![l] = 1]
  /\ lastSnap' = [lastSnap EXCEPT ![l] = getSnapshot(doc[Local])]
  /\ lastOp' = Op("subscribe", Local, l)
  /\ UNCHANGED <<doc, log, clientsUsed, uuidNext, now, persistVars, preReload, sceneVars>>

\* Mutant: the returned handle does not remove the listener.
unsubscribeKeeps(l) ==
  /\ l \in changeListeners
  /\ l \notin unsubscribed
  /\ unsubscribed' = unsubscribed \cup {l}
  /\ calls' = NoCalls
  /\ lastOp' = Op("unsubscribe", Local, l)
  /\ UNCHANGED <<doc, log, clientsUsed, uuidNext, now, persistVars, changeListeners,
                 lastSnap, preReload, sceneVars>>

\* The handle subscribe returned is called.
unsubscribe(l) ==
  /\ l \in changeListeners
  /\ changeListeners' = changeListeners \ {l}
  /\ unsubscribed' = unsubscribed \cup {l}
  /\ calls' = NoCalls
  /\ lastOp' = Op("unsubscribe", Local, l)
  /\ UNCHANGED <<doc, log, clientsUsed, uuidNext, now, persistVars, lastSnap, preReload,
                 sceneVars>>

Tick ==
  /\ now < MaxTime
  /\ now' = now + 1
  /\ calls' = NoCalls
  /\ lastOp' = Op("tick", "", "")
  /\ UNCHANGED <<doc, log, clientsUsed, uuidNext, persistVars, subVars, lastSnap,
                 preReload, sceneVars>>

\* ------------------------------------------------------------------------
\* CanvasEngine: gestures, and the callbacks App wires to the store
\* ------------------------------------------------------------------------
mass2 == 3          \* PHYSICS_CONFIG.mass = 1.5 = mass2 / 2
defaultPressure == 5
padding == 20
radius == 20

Notify(w, cb, k) == [w EXCEPT !.notified = Append(@, [cb |-> cb, key |-> k])]

\* App: setOnPositionChange / setPersistenceCallbacks
onPositionChange(w, cardId, x, y) ==
  updateCardPosition(Notify(w, "onPositionChange", cardId), cardId, <<x, y>>)
onConnectionCreated(w, fromId, toId) ==
  createConnection(Notify(w, "onConnectionCreated", ConnId(fromId, toId)), fromId, toId)
onStrokeFinished(w, id, points) ==
  addStroke(Notify(w, "onStrokeFinished", id), StrokeOf(id, points))
onStrokeDeleted(w, id) == deleteStroke(Notify(w, "onStrokeDeleted", id), id)

\* Mutant: no check for an existing connection.
Engine_createConnectionAlways(w, fromId, toId) ==
  LET id == ConnId(fromId, toId)
  IN onConnectionCreated(
       [w EXCEPT !.eng.connections = Put(@, id, [id |-> id, fromId |-> fromId, toId |-> toId])],
       fromId, toId)

Engine_createConnection(w, fromId, toId) ==
  LET id == ConnId(fromId, toId)
  IN IF id \in DOMAIN w.eng.connections THEN w
     ELSE onConnectionCreated(
            [w EXCEPT !.eng.connections =
                        Put(@, id, [id |-> id, fromId |-> fromId, toId |-> toId])],
            fromId, toId)

startPan(e, g) ==
  [e EXCEPT !.viewport.isDragging = TRUE, !.viewport.vx = 0, !.viewport.vy = 0,
            !.viewport.lastPointerX = g[1], !.viewport.lastPointerY = g[2]]

\* Mutant: the grabbed point of the card is forgotten.
startDragNoOffset(e, g, cardId, selectedIds) ==
  LET targets == IF cardId \in selectedIds THEN selectedIds ELSE {cardId}
  IN [e EXCEPT !.cards = [id \in DOMAIN e.cards |->
        IF id \in targets
        THEN [e.cards[id] EXCEPT !.isDragging = TRUE, !.vx = 0, !.vy = 0,
                                 !.dragOffsetX = 0, !.dragOffsetY = 0]
        ELSE e.cards[id]]]

\* Mutant: only the card under the pointer is dragged.
startDragClickedOnly(e, g, cardId, selectedIds) ==
  LET localPos == toLocal(e, g)
  IN [e EXCEPT !.cards = [id \in DOMAIN e.cards |->
        IF id = cardId
        THEN [e.cards[id] EXCEPT !.isDragging = TRUE, !.vx = 0, !.vy = 0,
                                 !.dragOffsetX = localPos[1] - e.cards[id].x,
                                 !.dragOffsetY = localPos[2] - e.cards[id].y]
        ELSE e.cards[id]]]

startDrag(e, g, cardId, selectedIds) ==
  LET targets == IF cardId \in selectedIds THEN selectedIds ELSE {cardId}
      localPos == toLocal(e, g)
  IN [e EXCEPT !.cards = [id \in DOMAIN e.cards |->
        IF id \in targets
        THEN [e.cards[id] EXCEPT !.isDragging = TRUE, !.vx = 0, !.vy = 0,
                                 !.dragOffsetX = localPos[1] - e.cards[id].x,
                                 !.dragOffsetY = localPos[2] - e.cards[id].y]
        ELSE e.cards[id]]]

\* The stroke object is both currentStroke and the entry of strokes marked
\* cur, until a hydrate drops that entry.
StrokePoint(e, g) == <<toLocal(e, g)[1] * Tenth, toLocal(e, g)[2] * Tenth, defaultPressure>>

SetCurrentPoints(e, pts) ==
  [e EXCEPT !.currentStroke.points = pts,
            !.strokes = [i \in DOMAIN e.strokes |->
                           IF e.strokes[i].cur THEN [e.strokes[i] EXCEPT !.points = pts]
                           ELSE e.strokes[i]]]

startStroke(e, g, strokeId) ==
  [e EXCEPT !.currentStroke = [id |-> strokeId, points |-> <<StrokePoint(e, g)>>],
            !.strokes = Append([i \in DOMAIN e.strokes |-> [e.strokes[i] EXCEPT !.cur = FALSE]],
                               [id |-> strokeId, points |-> <<StrokePoint(e, g)>>,
                                cur |-> TRUE])]

\* One sample per move event (the event itself is its only coalesced event).
continueStroke(e, g) ==
  IF e.currentStroke = null THEN e
  ELSE SetCurrentPoints(e, Append(e.currentStroke.points, StrokePoint(e, g)))

Min(S) == CHOOSE x \in S : \A y \in S : x <= y
Max(S) == CHOOSE x \in S : \A y \in S : x >= y

getStrokeBounds(points) ==
  LET xs == {points[i][1] : i \in 1..Len(points)}
      ys == {points[i][2] : i \in 1..Len(points)}
  IN Rect(Min(xs) - padding * Tenth, Min(ys) - padding * Tenth,
          Max(xs) - Min(xs) + padding * Tenth * 2, Max(ys) - Min(ys) + padding * Tenth * 2)

endStroke(w) ==
  IF w.eng.currentStroke = null THEN w
  ELSE LET cs == w.eng.currentStroke
           p == cs.points[1]
           pts == IF Len(cs.points) < 2 THEN Append(cs.points, <<p[1] + 1, p[2] + 1, p[3]>>)
                  ELSE cs.points
           w1 == onStrokeFinished([w EXCEPT !.eng = SetCurrentPoints(w.eng, pts)], cs.id, pts)
       IN [w1 EXCEPT
             !.eng.strokeQuadtree = insert(@, [id |-> cs.id, points |-> pts],
                                           getStrokeBounds(pts)),
             !.eng.currentStroke = null,
             !.eng.strokes = [i \in DOMAIN w1.eng.strokes |->
                                [w1.eng.strokes[i] EXCEPT !.cur = FALSE]]]

\* distToSegment(px, py, x1, y1, x2, y2) < r, in exact arithmetic: with
\* t = dot / l2 clamped to [0, 1], the squared distance is d1 at t = 0, d2 at
\* t = 1 and d1 - dot * dot / l2 in between
distToSegmentBelow(px, py, x1, y1, x2, y2, r) ==
  LET l2 == (x1 - x2) * (x1 - x2) + (y1 - y2) * (y1 - y2)
      d1 == (px - x1) * (px - x1) + (py - y1) * (py - y1)
      d2 == (px - x2) * (px - x2) + (py - y2) * (py - y2)
      dot == (px - x1) * (x2 - x1) + (py - y1) * (y2 - y1)
  IN IF l2 = 0 \/ dot <= 0 THEN d1 < r * r
     ELSE IF dot >= l2 THEN d2 < r * r
     ELSE d1 < r * r \/ (d1 - r * r) * l2 < dot * dot

\* eraseAt's loop over the strokes hit
RECURSIVE EraseHits(_, _)
EraseHits(w, hits) ==
  IF hits = <<>> THEN w
  ELSE LET w1 == onStrokeDeleted(w, Head(hits))
       IN EraseHits([w1 EXCEPT
                       !.eng.strokeQuadtree = remove(@, Head(hits)),
                       !.eng.strokes =
                          LET idx == {i \in DOMAIN w1.eng.strokes :
                                        w1.eng.strokes[i].id = Head(hits)}
                          IN IF idx = {} THEN @ ELSE RemoveAt(@, Min(idx))],
                    Tail(hits))

RECURSIVE Unique(_)
Unique(s) ==
  IF s = <<>> THEN <<>>
  ELSE <<Head(s)>> \o Unique(SelectSeq(Tail(s), LAMBDA x : x # Head(s)))

eraseAt(w, g) ==
  LET localPos == toLocal(w.eng, g)
      px == localPos[1] * Tenth
      py == localPos[2] * Tenth
      r == radius * Tenth
      candidates == retrieve(w.eng.strokeQuadtree, Rect(px - r, py - r, r * 2, r * 2))
      hit(item) == \E j \in 1..(Len(item.points) - 1) :
                     distToSegmentBelow(px, py, item.points[j][1], item.points[j][2],
                                        item.points[j + 1][1], item.points[j + 1][2], r)
      hitItems == SelectSeq(candidates, hit)
  IN EraseHits(w, Unique([i \in 1..Len(hitItems) |-> hitItems[i].id]))

getCardsInRect(e, x, y, width, height) ==
  LET rx == IF width < 0 THEN x + width ELSE x
      ry == IF height < 0 THEN y + height ELSE y
      rw == IF width < 0 THEN -width ELSE width
      rh == IF height < 0 THEN -height ELSE height
      candidates == retrieve(e.cardQuadtree, Rect(rx, ry, rw, rh))
      inside(item) ==
        /\ item.id \in DOMAIN e.cards
        /\ e.cards[item.id].x < rx + rw /\ e.cards[item.id].x + cardWidth > rx
        /\ e.cards[item.id].y < ry + rh /\ e.cards[item.id].y + cardHeight > ry
      found == SelectSeq(candidates, inside)
  IN [i \in 1..Len(found) |-> found[i].id]

\* ------------------------------------------------------------------------
\* InteractionManager and the stage's pointer handlers
\* ------------------------------------------------------------------------
nullId == ""
doubleClickMs == 500

NewInteractionManager ==
  [mode |-> "idle", isSpacePressed |-> FALSE, selectedCardIds |-> {}, lastClickTime |-> 0,
   lastClickedCardId |-> nullId, dragStart |-> null, connectionStartId |-> nullId,
   editingCardId |-> nullId]

setMode(w, mode) == [w EXCEPT !.im.mode = mode]
selectCard(w, cardId) == [w EXCEPT !.im.selectedCardIds = @ \cup {cardId}]
deselectAll(w) == [w EXCEPT !.im.selectedCardIds = {}]

\* window keydown, the target not being a text input
handleKeyDown(w, key) ==
  LET w1 == IF key = "Space" /\ ~w.im.isSpacePressed
            THEN setMode([w EXCEPT !.im.isSpacePressed = TRUE], "panning")
            ELSE w
  IN IF w1.im.isSpacePressed THEN w1
     ELSE IF key = "p" THEN setMode(w1, "drawing")
     ELSE IF key = "e" THEN setMode(w1, "erasing")
     ELSE IF key = "c" THEN setMode(w1, "connecting")
     ELSE IF key = "v" THEN setMode(w1, "idle")
     ELSE w1

handleKeyUp(w, key) ==
  IF key = "Space"
  THEN LET w1 == [w EXCEPT !.im.isSpacePressed = FALSE]
       IN IF w.im.mode = "panning" THEN setMode(w1, "idle") ELSE w1
  ELSE w

\* Toolbar: a tool button calls the interaction manager's setMode
setTool(w, m) == setMode(w, m)

handleCanvasDown(w, g, button) ==
  IF w.im.isSpacePressed \/ button = 1
  THEN [setMode(w, "panning") EXCEPT !.eng = startPan(@, g)]
  ELSE IF w.im.mode = "drawing"
  THEN [w EXCEPT !.eng = startStroke(@, g, UuidPool[w.uuidNext]), !.uuidNext = @ + 1]
  ELSE IF w.im.mode = "idle"
  THEN [setMode(deselectAll(w), "selecting") EXCEPT !.im.dragStart = g]
  ELSE w

handleGlobalMove(w, g) ==
  IF w.im.mode = "selecting" /\ w.im.dragStart # null
  THEN LET startLocal == toLocal(w.eng, w.im.dragStart)
           currentLocal == toLocal(w.eng, g)
           x == Min({startLocal[1], currentLocal[1]})
           y == Min({startLocal[2], currentLocal[2]})
           width == Max({currentLocal[1] - startLocal[1], startLocal[1] - currentLocal[1]})
           height == Max({currentLocal[2] - startLocal[2], startLocal[2] - currentLocal[2]})
       IN [w EXCEPT !.im.selectedCardIds = Range(getCardsInRect(w.eng, x, y, width, height))]
  ELSE w

\* Mutant: releasing the rubber band drops the selection.
handleGlobalUpDeselects(w) ==
  IF w.im.mode = "selecting"
  THEN [setMode(deselectAll(w), "idle") EXCEPT !.im.dragStart = null]
  ELSE w

handleGlobalUp(w) ==
  IF w.im.mode = "selecting" THEN [setMode(w, "idle") EXCEPT !.im.dragStart = null] ELSE w

\* Mutant: any second click on the same card is a double click.
handleCardDownAnyDelay(w, g, cardId, shiftKey) ==
  IF w.im.isSpacePressed THEN w
  ELSE IF w.im.lastClickedCardId = cardId
  THEN [setMode(w, "editing") EXCEPT !.im.editingCardId = cardId]
  ELSE LET w1 == [w EXCEPT !.im.lastClickTime = DateNow, !.im.lastClickedCardId = cardId]
           w2 == IF ~shiftKey /\ cardId \notin w1.im.selectedCardIds THEN deselectAll(w1) ELSE w1
           w3 == selectCard(w2, cardId)
       IN IF w3.im.mode = "connecting" THEN [w3 EXCEPT !.im.connectionStartId = cardId]
          ELSE [setMode(w3, "dragging") EXCEPT
                  !.eng = startDrag(@, g, cardId, w3.im.selectedCardIds)]

\* Mutant: a click without shift always clears the selection first.
handleCardDownAlwaysClear(w, g, cardId, shiftKey) ==
  IF w.im.isSpacePressed THEN w
  ELSE IF w.im.lastClickedCardId = cardId /\ DateNow - w.im.lastClickTime < doubleClickMs
  THEN [setMode(w, "editing") EXCEPT !.im.editingCardId = cardId]
  ELSE LET w1 == [w EXCEPT !.im.lastClickTime = DateNow, !.im.lastClickedCardId = cardId]
           w2 == IF ~shiftKey THEN deselectAll(w1) ELSE w1
           w3 == selectCard(w2, cardId)
       IN IF w3.im.mode = "connecting" THEN [w3 EXCEPT !.im.connectionStartId = cardId]
          ELSE [setMode(w3, "dragging") EXCEPT
                  !.eng = startDrag(@, g, cardId, w3.im.selectedCardIds)]

\* Mutant: a card is clicked as usual while Space is held.
handleCardDownIgnoresSpace(w, g, cardId, shiftKey) ==
  IF w.im.lastClickedCardId = cardId /\ DateNow - w.im.lastClickTime < doubleClickMs
  THEN [setMode(w, "editing") EXCEPT !.im.editingCardId = cardId]
  ELSE LET w1 == [w EXCEPT !.im.lastClickTime = DateNow, !.im.lastClickedCardId = cardId]
           w2 == IF ~shiftKey /\ cardId \notin w1.im.selectedCardIds THEN deselectAll(w1) ELSE w1
           w3 == selectCard(w2, cardId)
       IN IF w3.im.mode = "connecting" THEN [w3 EXCEPT !.im.connectionStartId = cardId]
          ELSE [setMode(w3, "dragging") EXCEPT
                  !.eng = startDrag(@, g, cardId, w3.im.selectedCardIds)]

handleCardDown(w, g, cardId, shiftKey) ==
  IF w.im.isSpacePressed THEN w
  ELSE IF w.im.lastClickedCardId = cardId /\ DateNow - w.im.lastClickTime < doubleClickMs
  THEN [setMode(w, "editing") EXCEPT !.im.editingCardId = cardId]
  ELSE LET w1 == [w EXCEPT !.im.lastClickTime = DateNow, !.im.lastClickedCardId = cardId]
           w2 == IF ~shiftKey /\ cardId \notin w1.im.selectedCardIds THEN deselectAll(w1) ELSE w1
           w3 == selectCard(w2, cardId)
       IN IF w3.im.mode = "connecting" THEN [w3 EXCEPT !.im.connectionStartId = cardId]
          ELSE [setMode(w3, "dragging") EXCEPT
                  !.eng = startDrag(@, g, cardId, w3.im.selectedCardIds)]

\* Mutant: the connection is made from the card of the pointer-up.
handleCardUpReversed(w, cardId) ==
  IF w.im.mode = "connecting" /\ w.im.connectionStartId # nullId
  THEN [(IF w.im.connectionStartId # cardId
         THEN Engine_createConnection(w, cardId, w.im.connectionStartId) ELSE w)
          EXCEPT !.im.connectionStartId = nullId]
  ELSE w

handleCardUp(w, cardId) ==
  IF w.im.mode = "connecting" /\ w.im.connectionStartId # nullId
  THEN [(IF w.im.connectionStartId # cardId
         THEN Engine_createConnection(w, w.im.connectionStartId, cardId) ELSE w)
          EXCEPT !.im.connectionStartId = nullId]
  ELSE w

\* Math.round(v / gridSize) * gridSize
SnapToGrid(v) == ((2 * v + gridSize) \div (2 * gridSize)) * gridSize

\* ------------------------------------------------------------------------
\* Presence. awareness holds the states of the provider's Awareness
\* instance, by client id: a state is the cursor's world position, or null
\* as long as the peer has published its name and colour only. A remote
\* cursor of the scene is the position it is drawn at.
\* ------------------------------------------------------------------------
\* Mutant: the local peer gets a cursor too.
onAwarenessChangeRendersSelf(e, states, removed, clientID) ==
  [e EXCEPT !.remoteCursors =
     [c \in DOMAIN states |->
        IF states[c] # null THEN states[c]
        ELSE IF c \in DOMAIN e.remoteCursors \ removed THEN e.remoteCursors[c]
        ELSE <<0, 0>>]]

\* setupAwareness: the 'change' listener
onAwarenessChange(e, states, removed, clientID) ==
  LET kept == (DOMAIN e.remoteCursors) \ removed
  IN [e EXCEPT !.remoteCursors =
        [c \in kept \cup (DOMAIN states \ {clientID}) |->
           IF c \in DOMAIN states \ {clientID} /\ states[c] # null THEN states[c]
           ELSE IF c \in kept THEN e.remoteCursors[c]
           ELSE <<0, 0>>]]

\* Awareness.setLocalState: 'change' is emitted when the state differs
setLocalState(w, state) ==
  LET clientID == w.doc.client
      states == Put(w.awareness, clientID, state)
  IN IF states = w.awareness THEN w
     ELSE [w EXCEPT !.awareness = states,
                    !.eng = onAwarenessChange(@, states, {}, clientID)]

\* DocumentStore.updateAwareness, the engine's onCursorMove callback
updateAwareness(w, state) == setLocalState(w, state)

\* applyAwarenessUpdate: a peer's state arrives, or its removal (the peer
\* left or timed out); 'change' is emitted when the states differ
applyAwarenessUpdate(w, c, state, left) ==
  LET states == IF left THEN Drop(w.awareness, c) ELSE Put(w.awareness, c, state)
      removed == IF left THEN {c} \cap DOMAIN w.awareness ELSE {}
  IN IF states = w.awareness THEN w
     ELSE [w EXCEPT !.awareness = states,
                    !.eng = onAwarenessChange(@, states, removed, w.doc.client)]

\* globalpointermove after the eraser and the stroke: panning, and the
\* cards being dragged follow the pointer. Velocities are in thousandths.
DragMove(e, g) ==
  LET dx == g[1] - e.viewport.lastPointerX
      dy == g[2] - e.viewport.lastPointerY
      e1 == IF e.viewport.isDragging
            THEN [e EXCEPT !.viewport.vx = dx * ScaleUnit, !.viewport.vy = dy * ScaleUnit,
                           !.viewport.x = @ + dx, !.viewport.y = @ + dy,
                           !.viewport.lastPointerX = g[1], !.viewport.lastPointerY = g[2]]
            ELSE e
      localMousePos == toLocal(e1, g)
      moved(c) == LET newX == localMousePos[1] - c.dragOffsetX
                      newY == localMousePos[2] - c.dragOffsetY
                  IN [c EXCEPT !.vx = ((newX - c.x) * ScaleUnit * 2) \div mass2,
                               !.vy = ((newY - c.y) * ScaleUnit * 2) \div mass2,
                               !.x = newX, !.y = newY,
                               !.targetX = SnapToGrid(newX), !.targetY = SnapToGrid(newY)]
  IN [e1 EXCEPT !.cards = [id \in DOMAIN e1.cards |->
                             IF e1.cards[id].isDragging THEN moved(e1.cards[id])
                             ELSE e1.cards[id]]]

globalpointermove(w, g, buttons) ==
  LET w1 == handleGlobalMove(w, g)
  IN IF w1.im.mode = "erasing" /\ buttons = 1 THEN eraseAt(w1, g)
     ELSE LET w2 == updateAwareness(w1, toLocal(w1.eng, g))
          IN IF w2.eng.currentStroke # null
             THEN [w2 EXCEPT !.eng = continueStroke(@, g)]
             ELSE [w2 EXCEPT !.eng = DragMove(@, g)]

\* onUp's loop over the cards: the Map is iterated while the store's
\* notification hydrates it.
RECURSIVE EndDrags(_, _)
EndDrags(w, visited) ==
  LET rest == SelectSeq(w.eng.cardOrder, LAMBDA id : id \notin visited)
  IN IF rest = <<>> THEN w
     ELSE LET cardId == Head(rest)
              state == w.eng.cards[cardId]
          IN IF state.isDragging
             THEN EndDrags(onPositionChange([w EXCEPT !.eng.cards[cardId].isDragging = FALSE],
                                            cardId, state.x, state.y),
                           visited \cup {cardId})
             ELSE EndDrags(w, visited \cup {cardId})

\* Mutant: the release leaves the viewport's panning flag alone.
onUpKeepsPan(w) ==
  EndDrags(endStroke(handleGlobalUp(w)), {})

\* stage pointerup / pointerupoutside
onUp(w) ==
  EndDrags([endStroke(handleGlobalUp(w)) EXCEPT !.eng.viewport.isDragging = FALSE], {})

\* The topmost card under a screen point, if any
hitCard(e, g) ==
  LET p == toLocal(e, g)
      hits == {i \in DOMAIN e.cardOrder :
                 /\ p[1] >= e.cards[e.cardOrder[i]].x
                 /\ p[1] <= e.cards[e.cardOrder[i]].x + cardWidth
                 /\ p[2] >= e.cards[e.cardOrder[i]].y
                 /\ p[2] <= e.cards[e.cardOrder[i]].y + cardHeight}
  IN IF hits = {} THEN nullId ELSE e.cardOrder[Max(hits)]

\* ------------------------------------------------------------------------
\* CanvasEngine: the physics tick. JavaScript numbers are modelled in fixed
\* point with round-to-nearest, as IEEE arithmetic rounds: positions in
\* thousandths of a pixel and velocities in millionths of a pixel per tick,
\* so that a position absorbs a velocity below half its own step, as a
\* double near 100 absorbs an increment below half its last digit.
\* ------------------------------------------------------------------------
Milli == 1000
Micro == 1000000
Pct == 100
frictionPct == 92       \* PHYSICS_CONFIG.friction = 0.92
springPct == 10         \* PHYSICS_CONFIG.spring = 0.1
minVelocityPct == 1     \* PHYSICS_CONFIG.minVelocity = 0.01

\* a / b rounded to the nearest integer, halves to the even one (b > 0)
RoundDiv(a, b) ==
  LET q == a \div b
      r == a % b
  IN IF 2 * r > b \/ (2 * r = b /\ q % 2 = 1) THEN q + 1 ELSE q

Abs(a) == IF a < 0 THEN -a ELSE a

\* The engine's numbers in the units of the physics tick
Fine(e) ==
  [e EXCEPT
     !.viewport = [@ EXCEPT !.x = @ * Milli, !.y = @ * Milli,
                            !.vx = @ * (Micro \div ScaleUnit),
                            !.vy = @ * (Micro \div ScaleUnit)],
     !.world = [@ EXCEPT !.x = @ * Milli, !.y = @ * Milli],
     !.cards = [id \in DOMAIN e.cards |->
                  [e.cards[id] EXCEPT !.x = @ * Milli, !.y = @ * Milli,
                                      !.targetX = @ * Milli, !.targetY = @ * Milli,
                                      !.vx = @ * (Micro \div ScaleUnit),
                                      !.vy = @ * (Micro \div ScaleUnit),
                                      !.dragOffsetX = @ * Milli,
                                      !.dragOffsetY = @ * Milli]]]

\* v += ax; v *= friction
SpringStep(v, d) ==
  RoundDiv((v + RoundDiv(d * (Micro \div Milli) * springPct * 2, Pct * mass2)) * frictionPct,
           Pct)

\* Mutant: the viewport's velocity is never set to zero.
physicsTickNoSnap(e) ==
  LET vp == e.viewport
      vx == RoundDiv(vp.vx * frictionPct, Pct)
      vy == RoundDiv(vp.vy * frictionPct, Pct)
      vp1 == IF vp.isDragging THEN vp
             ELSE [vp EXCEPT
                     !.x = @ + RoundDiv(vx, Micro \div Milli),
                     !.y = @ + RoundDiv(vy, Micro \div Milli),
                     !.vx = vx, !.vy = vy]
  IN [e EXCEPT !.viewport = vp1,
               !.world = [x |-> vp1.x, y |-> vp1.y, scale |-> vp1.scale]]

physicsTick(e) ==
  LET vp == e.viewport
      vx == RoundDiv(vp.vx * frictionPct, Pct)
      vy == RoundDiv(vp.vy * frictionPct, Pct)
      vp1 == IF vp.isDragging THEN vp
             ELSE [vp EXCEPT
                     !.x = @ + RoundDiv(vx, Micro \div Milli),
                     !.y = @ + RoundDiv(vy, Micro \div Milli),
                     !.vx = IF Abs(vx) * Pct < minVelocityPct * Micro THEN 0 ELSE vx,
                     !.vy = IF Abs(vy) * Pct < minVelocityPct * Micro THEN 0 ELSE vy]
      step(c) == LET vx1 == SpringStep(c.vx, c.targetX - c.x)
                     vy1 == SpringStep(c.vy, c.targetY - c.y)
                 IN [c EXCEPT !.vx = vx1, !.vy = vy1,
                              !.x = @ + RoundDiv(vx1, Micro \div Milli),
                              !.y = @ + RoundDiv(vy1, Micro \div Milli)]
  IN [e EXCEPT !.viewport = vp1,
               !.world = [x |-> vp1.x, y |-> vp1.y, scale |-> vp1.scale],
               !.cards = [id \in DOMAIN e.cards |->
                            IF e.cards[id].isDragging THEN e.cards[id]
                            ELSE step(e.cards[id])]]

\* ------------------------------------------------------------------------
\* CanvasEngine: wheel zoom. The scale is in thousandths, and a product is
\* rounded to the nearest step of the numbers it is stored in.
\* ------------------------------------------------------------------------
minScale == 100         \* Math.max(0.1, ...)
maxScale == 5000        \* Math.min(5, ...)
zoomOutFactor == 900    \* deltaY > 0: 0.9
zoomInFactor == 1100    \* otherwise: 1.1

\* Mutant: the viewport is moved by the zoom factor, clamped or not.
wheelByFactor(e, deltaYPositive, mouseX, mouseY) ==
  LET zoomFactor == IF deltaYPositive THEN zoomOutFactor ELSE zoomInFactor
      oldScale == e.viewport.scale
      newScale == Max({minScale, Min({maxScale, RoundDiv(oldScale * zoomFactor, ScaleUnit)})})
  IN [e EXCEPT
        !.viewport.x = mouseX - RoundDiv((mouseX - @) * zoomFactor, ScaleUnit),
        !.viewport.y = mouseY - RoundDiv((mouseY - @) * zoomFactor, ScaleUnit),
        !.viewport.scale = newScale]

\* Mutant: the new scale is not clamped.
wheelUnclamped(e, deltaYPositive, mouseX, mouseY) ==
  LET zoomFactor == IF deltaYPositive THEN zoomOutFactor ELSE zoomInFactor
      oldScale == e.viewport.scale
      newScale == RoundDiv(oldScale * zoomFactor, ScaleUnit)
  IN [e EXCEPT
        !.viewport.x = mouseX - RoundDiv((mouseX - @) * newScale, oldScale),
        !.viewport.y = mouseY - RoundDiv((mouseY - @) * newScale, oldScale),
        !.viewport.scale = newScale]

\* canvas 'wheel' listener
wheel(e, deltaYPositive, mouseX, mouseY) ==
  LET zoomFactor == IF deltaYPositive THEN zoomOutFactor ELSE zoomInFactor
      oldScale == e.viewport.scale
      newScale == Max({minScale, Min({maxScale, RoundDiv(oldScale * zoomFactor, ScaleUnit)})})
  IN [e EXCEPT
        !.viewport.x = mouseX - RoundDiv((mouseX - @) * newScale, oldScale),
        !.viewport.y = mouseY - RoundDiv((mouseY - @) * newScale, oldScale),
        !.viewport.scale = newScale]

\* The wheel turned n times the same way at the same place
RECURSIVE WheelN(_, _, _, _)
WheelN(e, n, deltaYPositive, g) ==
  IF n = 0 THEN e ELSE WheelN(wheel(e, deltaYPositive, g[1], g[2]), n - 1, deltaYPositive, g)

\* ------------------------------------------------------------------------
\* Specifications of the store
\* ------------------------------------------------------------------------
NoScene ==
  /\ eng = <<>> /\ im = <<>> /\ notified = <<>> /\ pointer = <<>> /\ awareness = <<>>
  /\ held = <<>>

\* The state after construction, on a board that holds one card.
InitStore(pc, board, listeners) ==
  /\ \E ca, cb \in {1, 2} :
       /\ ca # cb
       /\ doc = [r \in Peers |-> IF r = Local
                                 THEN (IF pc = "ready" THEN ApplyUpdate(EmptyDoc(ca), board)
                                       ELSE EmptyDoc(ca))
                                 ELSE ApplyUpdate(EmptyDoc(cb), board)]
       /\ clientsUsed = {ca, cb}
  /\ log = {}
  /\ uuidNext = 1
  /\ now = 0
  /\ initPc = pc
  /\ persist = IF pc = "ready" THEN "synced" ELSE "none"
  /\ idb = <<board>>
  /\ idbQueue = <<>>
  /\ changeListeners = listeners
  /\ unsubscribed = {}
  /\ calls = NoCalls
  /\ lastSnap = [l \in Listeners |-> IF l \in listeners THEN getSnapshot(doc[Local])
                                     ELSE EmptySnapshot]
  /\ preReload = Superseded
  /\ lastOp = Op("construct", "", "")

\* Replication: two initialised peers mutate and exchange updates.
Init == InitStore("ready", Update0, {}) /\ NoScene

Next ==
  \/ \E r \in Peers : Mutation(r)
  \/ \E r \in Peers, u \in log : Deliver(r, u)
  \/ \E r, s \in Peers : Sync(r, s)

Spec == Init /\ [][Next]_vars

\* Subscription: listeners come and go at the local peer while both peers
\* mutate and exchange updates.
SubNext ==
  \/ \E r \in Peers : Mutation(r)
  \/ \E u \in log : Deliver(Local, u)
  \/ Sync(Local, "B")
  \/ subscribe("l1")
  \/ unsubscribe("l1")

SubSpec == Init /\ [][SubNext]_vars

\* Durability: the local peer alone, from the construction of its store on,
\* with reloads (no peer is connected).
DurInit == InitStore("new", Update0, {}) /\ NoScene

DurNext ==
  \/ InitStart
  \/ PersistSynced
  \/ PersistFail
  \/ IdbWriteDone
  \/ Reload
  \/ Mutation(Local)

DurSpec == DurInit /\ [][DurNext]_vars

\* ------------------------------------------------------------------------
\* The scene: the App wires the engine to the store; user input
\* ------------------------------------------------------------------------
PointerPos == {<<30, 30>>, <<330, 30>>}
Keys == {"c"}

\* The stored board the scene starts from holds two cards side by side.
Card1 == CardOf("w0", <<300, 0>>, "", 0)
Update1 ==
  [structs |-> {Item(0, 0, "cards", "u0", NoId, Card0), Item(0, 1, "cards", "w0", NoId, Card1)},
   ds |-> {}]

KeyDown(key) ==
  /\ Returns(handleKeyDown(World(Local), key), Op("keydown", Local, key))
  /\ UNCHANGED pointer

KeyUp(key) ==
  /\ Returns(handleKeyUp(World(Local), key), Op("keyup", Local, key))
  /\ UNCHANGED pointer

\* What the gesture started from (history): where the button went down and
\* on which card, whether shift was held, the interaction state, the scene's cards and the stored
\* cards.
GestureStart(target, shiftKey) ==
  [at |-> pointer.at, card |-> target, shiftKey |-> shiftKey, im |-> im, now |-> DateNow,
   cards |-> eng.cards, stored |-> getSnapshot(doc[Local]).cards]

\* pointerdown reaches the topmost card under the pointer or else the stage.
\* A button goes down where the pointer is; a gesture starts while the
\* bound leaves room for its transaction.
PointerDown(button, shiftKey) ==
  /\ pointer.buttons = 0
  /\ pointer.at # null
  /\ Cardinality(log) < MaxTxns
  /\ uuidNext <= Len(UuidPool)
  /\ LET target == hitCard(eng, pointer.at)
     IN Returns(IF target # nullId
                THEN handleCardDown(World(Local), pointer.at, target, shiftKey)
                ELSE handleCanvasDown(World(Local), pointer.at, button),
                Op("pointerdown", Local, target))
  /\ pointer' = [pointer EXCEPT !.buttons = IF button = 1 THEN 4 ELSE 1,
                                !.down = GestureStart(hitCard(eng, pointer.at), shiftKey)]

\* A button of the toolbar is clicked.
SetTool(m) ==
  /\ pointer.buttons = 0
  /\ Returns(setTool(World(Local), m), Op("setTool", Local, m))
  /\ UNCHANGED pointer

\* A remote peer's presence arrives: it joined, or moved its cursor.
PresenceUpdate(c, state) ==
  /\ c # doc[Local].client
  /\ Returns(applyAwarenessUpdate(World(Local), c, state, FALSE),
             Op("awareness.update", Local, ""))
  /\ UNCHANGED pointer

\* A remote peer left or timed out.
PresenceLeave(c) ==
  /\ c # doc[Local].client
  /\ c \in DOMAIN awareness
  /\ Returns(applyAwarenessUpdate(World(Local), c, null, TRUE),
             Op("awareness.remove", Local, ""))
  /\ UNCHANGED pointer

\* The pointer moves to another place.
PointerMove(g) ==
  /\ g # pointer.at
  /\ eng.currentStroke # null => Len(eng.currentStroke.points) < MaxPoints
  /\ Returns(globalpointermove(World(Local), g, pointer.buttons),
             Op("pointermove", Local, ""))
  /\ pointer' = [pointer EXCEPT !.at = g]

\* handleCardUp on this card calls the engine's createConnection
ConnectsTo(cardId) ==
  im.mode = "connecting" /\ im.connectionStartId # nullId /\ im.connectionStartId # cardId

\* pointerup reaches the card under the pointer, if any, then the stage.
PointerUp ==
  /\ pointer.buttons # 0
  /\ LET target == hitCard(eng, pointer.at)
     IN Returns(onUp(IF target # nullId THEN handleCardUp(World(Local), target)
                     ELSE World(Local)),
                IF target # nullId /\ ConnectsTo(target)
                THEN Op("engine.createConnection", Local, ConnId(im.connectionStartId, target))
                ELSE Op("pointerup", Local, target))
  /\ pointer' = [pointer EXCEPT !.buttons = 0, !.down = null]

\* pointerupoutside: the button is released outside the canvas, so the
\* event reaches the stage and no card.
PointerUpOutside ==
  /\ pointer.buttons # 0
  /\ Returns(onUp(World(Local)), Op("pointerupoutside", Local, ""))
  /\ pointer' = [pointer EXCEPT !.buttons = 0, !.down = null]

\* The remote peer connects two cards of the board; a repeated call commits
\* nothing, so only a committing call needs room under the bound.
RemoteConnect(a, b) ==
  /\ a # b
  /\ Cardinality(log) < MaxTxns
  /\ Returns(createConnection(World("B"), a, b), Op("createConnection", "B", ConnId(a, b)))
  /\ UNCHANGED pointer

\* After initApp: the store is initialised, the engine hydrated from the
\* stored board and again by the listener's first call.
SceneInit ==
  /\ InitStore("ready", Update1, {"app"})
  /\ eng = HydrateN(NewEngine, getSnapshot(doc[Local]), 2)
  /\ im = NewInteractionManager
  /\ notified = <<>>
  /\ pointer = [buttons |-> 0, at |-> null, down |-> null, wheel |-> 0]
  /\ awareness = NewAwareness
  /\ held = <<>>

\* Cards are dragged while the remote peer edits the board.
SceneNext ==
  \/ Mutation("B")
  \/ \E u \in log : Deliver(Local, u)
  \/ Sync(Local, "B")
  \/ \E shiftKey \in BOOLEAN : PointerDown(0, shiftKey)
  \/ \E g \in PointerPos : PointerMove(g)
  \/ PointerUp

SceneSpec == SceneInit /\ [][SceneNext]_vars

\* Cards are connected with the connect tool, here and at the remote peer.
ConnectNext ==
  \/ \E a, b \in Range(BoardIds) : RemoteConnect(a, b)
  \/ Sync(Local, "B")
  \/ \E key \in Keys : KeyDown(key)
  \/ PointerDown(0, FALSE)
  \/ \E g \in PointerPos : PointerMove(g)
  \/ PointerUp

ConnectSpec == SceneInit /\ [][ConnectNext]_vars

\* One user alone: cards are dragged, selected with the rubber band and
\* with shift, on a screen of three places.
DragPos == PointerPos \cup {<<30, 330>>}

DragNext ==
  \/ \E shiftKey \in BOOLEAN : PointerDown(0, shiftKey)
  \/ \E g \in DragPos : PointerMove(g)
  \/ PointerUp

DragSpec == SceneInit /\ [][DragNext]_vars

\* Strokes are drawn and erased below the cards, and the remote peer draws
\* one along the same line. The places are 10 and 30 pixels apart, one
\* nearer to the line than the eraser's radius and one farther.
DrawPos == {<<30, 330>>, <<35, 351>>}
DrawKeys == {"p", "e"}
RemoteStrokePoints ==
  << <<30 * Tenth, 330 * Tenth, defaultPressure>>, <<40 * Tenth, 330 * Tenth, defaultPressure>> >>

RemoteDraw ==
  /\ Cardinality(log) < MaxTxns
  /\ uuidNext <= Len(UuidPool)
  /\ Returns([addStroke(World("B"), StrokeOf(UuidPool[uuidNext], RemoteStrokePoints))
                EXCEPT !.uuidNext = @ + 1],
             Op("addStroke", "B", UuidPool[uuidNext]))
  /\ UNCHANGED pointer

DrawNext ==
  \/ \E key \in DrawKeys : KeyDown(key)
  \/ PointerDown(0, FALSE)
  \/ \E g \in DrawPos : PointerMove(g)
  \/ PointerUp
  \/ RemoteDraw
  \/ Sync(Local, "B")

DrawSpec == SceneInit /\ [][DrawNext]_vars

\* ------------------------------------------------------------------------
\* A Quadtree on its own: entries are inserted and removed, as createCard,
\* updateCardPosition, endStroke and eraseAt do. The tree is the engine's
\* card index; held records what it was given.
\* ------------------------------------------------------------------------
ItemIds == <<"i1", "i2", "i3", "i4", "i5", "i6", "i7", "i8", "i9", "i10", "i11", "i12",
             "i13", "i14">>

\* A card deep inside a quadrant, one across the centre of the world, one
\* across the midline of that quadrant, one elsewhere in that quadrant
Deep == Rect(-30000, -30000, cardWidth, cardHeight)
Centre == Rect(-100, -75, cardWidth, cardHeight)
Edge == Rect(-25100, -30000, cardWidth, cardHeight)
Other == Rect(-10000, -10000, cardWidth, cardHeight)

\* The places the k-th entry may have
ItemRects(k) == {Deep, <<Centre, Edge, Other>>[(k % 3) + 1]}

QuadInsert(rect) ==
  /\ uuidNext <= MaxItems /\ uuidNext <= Len(ItemIds)
  /\ eng' = [eng EXCEPT !.cardQuadtree = insert(@, [id |-> ItemIds[uuidNext]], rect)]
  /\ held' = [id \in DOMAIN held \cup {ItemIds[uuidNext]} |->
                IF id = ItemIds[uuidNext] THEN rect ELSE held[id]]
  /\ uuidNext' = uuidNext + 1
  /\ lastOp' = Op("quadtree.insert", Local, ItemIds[uuidNext])
  /\ UNCHANGED <<doc, log, clientsUsed, now, persistVars, subVars, calls, lastSnap,
                 preReload, im, notified, pointer, awareness>>

QuadRemove(id) ==
  /\ id \in DOMAIN held
  /\ eng' = [eng EXCEPT !.cardQuadtree = remove(@, id)]
  /\ held' = [x \in DOMAIN held \ {id} |-> held[x]]
  /\ lastOp' = Op("quadtree.remove", Local, id)
  /\ UNCHANGED <<doc, log, clientsUsed, uuidNext, now, persistVars, subVars, calls,
                 lastSnap, preReload, im, notified, pointer, awareness>>

QuadInit ==
  /\ InitStore("ready", Update0, {})
  /\ eng = NewEngine
  /\ im = <<>> /\ notified = <<>> /\ pointer = <<>> /\ awareness = <<>>
  /\ held = <<>>

QuadNext ==
  \/ \E rect \in ItemRects(uuidNext) : QuadInsert(rect)
  \/ \E id \in {ItemIds[1], ItemIds[2]} : QuadRemove(id)

QuadSpec == QuadInit /\ [][QuadNext]_vars

\* ------------------------------------------------------------------------
\* A board of eleven cards, more than a Quadtree node holds: nine of them
\* up and to the left of the world's origin. The remote peer moves cards
\* while the local user drags.
\* ------------------------------------------------------------------------
CrowdCard(i) == CardOf(CrowdIds[i], <<-300 * i, -300>>, "", 0)
UpdateCrowd ==
  [structs |-> Update1.structs \cup
                 {Item(0, i + 1, "cards", CrowdIds[i], NoId, CrowdCard(i)) : i \in DOMAIN CrowdIds},
   ds |-> {}]

RemoteMove(id, p) ==
  /\ CanMutate("B")
  /\ Returns(updateCardPosition(World("B"), id, p), Op("updateCardPosition", "B", id))
  /\ UNCHANGED pointer

CrowdInit ==
  /\ InitStore("ready", UpdateCrowd, {"app"})
  /\ eng = HydrateN(NewEngine, getSnapshot(doc[Local]), 2)
  /\ im = NewInteractionManager
  /\ notified = <<>>
  /\ pointer = [buttons |-> 0, at |-> null, down |-> null, wheel |-> 0]
  /\ awareness = NewAwareness
  /\ held = <<>>

CrowdNext ==
  \/ \E id \in {"u0", "k1"}, p \in Points : RemoteMove(id, p)
  \/ Sync(Local, "B")
  \/ PointerDown(0, FALSE)
  \/ \E g \in PointerPos : PointerMove(g)
  \/ PointerUp

CrowdSpec == CrowdInit /\ [][CrowdNext]_vars

\* ------------------------------------------------------------------------
\* The connect tool is used while the remote peer deletes cards.
\* ------------------------------------------------------------------------
RemoteDelete(id) ==
  /\ CanMutate("B")
  /\ Returns(deleteCard(World("B"), id), Op("deleteCard", "B", id))
  /\ UNCHANGED pointer

StaleNext ==
  \/ \E id \in Range(BoardIds) : RemoteDelete(id)
  \/ Sync(Local, "B")
  \/ \E key \in Keys : KeyDown(key)
  \/ PointerDown(0, FALSE)
  \/ \E g \in PointerPos : PointerMove(g)
  \/ PointerUp

StaleSpec == SceneInit /\ [][StaleNext]_vars

\* ------------------------------------------------------------------------
\* The connect tool is used on the two cards and on the empty canvas.
\* ------------------------------------------------------------------------
CancelNext ==
  \/ \E key \in Keys : KeyDown(key)
  \/ PointerDown(0, FALSE)
  \/ \E g \in DragPos : PointerMove(g)
  \/ PointerUp

CancelSpec == SceneInit /\ [][CancelNext]_vars

\* Cards are clicked while the clock advances.
ClickNext ==
  \/ Tick
  \/ PointerDown(0, FALSE)
  \/ \E g \in PointerPos : PointerMove(g)
  \/ PointerUp

ClickSpec == SceneInit /\ [][ClickNext]_vars

\* The Space key is pressed and released in the middle of any gesture with
\* any tool. The pointer is on card u0 or just below it; gestures start
\* until one of them has written to the store.
SpaceKeys == {"Space", "p", "e", "c"}
SpacePos == {<<30, 140>>, <<30, 160>>}
Panned(e) == Max({e.viewport.x, -e.viewport.x, e.viewport.y, -e.viewport.y})
SpaceNext ==
  \/ \E key \in SpaceKeys : KeyDown(key)
  \/ KeyUp("Space")
  \/ PointerDown(0, FALSE) /\ log = {}
  \/ \E g \in SpacePos : PointerMove(g) /\ Panned(eng') <= MaxPan
  \/ PointerUp

SpaceSpec == SceneInit /\ [][SpaceNext]_vars

\* The pan tool is chosen from the toolbar, with Space or with the middle
\* button, and the pointer goes down on the empty canvas and moves.
ToolbarModes == {"idle", "panning", "drawing"}
PanNext ==
  \/ \E m \in ToolbarModes : SetTool(m)
  \/ KeyDown("Space")
  \/ KeyUp("Space")
  \/ \E button \in {0, 1} : PointerDown(button, FALSE) /\ log = {}
  \/ \E g \in SpacePos : PointerMove(g) /\ Panned(eng') <= MaxPan
  \/ PointerUp

PanSpec == SceneInit /\ [][PanNext]_vars

\* Cards are dragged, the viewport is panned with Space or the middle
\* button, strokes are drawn, and the button is released inside or outside
\* the canvas.
ReleaseKeys == {"Space", "p"}
ReleaseNext ==
  \/ \E key \in ReleaseKeys : KeyDown(key)
  \/ KeyUp("Space")
  \/ \E button \in {0, 1} : PointerDown(button, FALSE) /\ log = {}
  \/ \E g \in SpacePos : PointerMove(g) /\ Panned(eng') <= MaxPan
  \/ PointerUp
  \/ PointerUpOutside

ReleaseSpec == SceneInit /\ [][ReleaseNext]_vars

\* The host calls the engine's createCard, during drags too, for cards of
\* the board and for a card the scene does not have; gestures start until
\* one of them has written to the store.
CreateIds == {"u0", "w0", "k1"}
CreateAt == {<<0, 0>>, <<600, 0>>}
EngineCreateCard(cardId, p) ==
  /\ Returns([World(Local) EXCEPT !.eng = Engine_createCard(@, cardId, p[1], p[2], "")],
             Op("engine.createCard", Local, cardId))
  /\ UNCHANGED pointer

CreateNext ==
  \/ \E cardId \in CreateIds, p \in CreateAt : EngineCreateCard(cardId, p)
  \/ PointerDown(0, FALSE) /\ log = {}
  \/ \E g \in DragPos : PointerMove(g)
  \/ PointerUp

CreateSpec == SceneInit /\ [][CreateNext]_vars

\* Physics: card u0, at rest at the origin, is given the target (100, 100),
\* and the ticker runs.
PhysInit ==
  /\ InitStore("ready", Update1, {"app"})
  /\ eng = Fine(Engine_updateCardPosition(HydrateN(NewEngine, getSnapshot(doc[Local]), 2),
                                          "u0", 100, 100))
  /\ im = NewInteractionManager
  /\ notified = <<>>
  /\ pointer = [buttons |-> 0, at |-> null, down |-> null, wheel |-> 0]
  /\ awareness = NewAwareness
  /\ held = <<>>

PhysicsTick ==
  /\ Returns([World(Local) EXCEPT !.eng = physicsTick(@)], Op("physicsTick", Local, ""))
  /\ UNCHANGED pointer

PhysNext == PhysicsTick

\* The ticker calls physicsTick on every frame.
PhysSpec == PhysInit /\ [][PhysNext]_vars /\ WF_vars(PhysicsTick)

\* Inertia: the viewport is being panned with Space held, the pointer having
\* gone down at PanFrom and moved once, by up to MaxPanStep pixels each way;
\* the button is released at some frame and the ticker runs on.
MaxPanStep == 20
PanFrom == <<30, 160>>
PanSteps == {-MaxPanStep, 0, 7, MaxPanStep}
InertiaInit ==
  /\ InitStore("ready", Update1, {"app"})
  /\ im = [NewInteractionManager EXCEPT !.isSpacePressed = TRUE, !.mode = "panning"]
  /\ notified = <<>>
  /\ held = <<>>
  /\ \E dx, dy \in PanSteps :
       LET e0 == HydrateN(NewEngine, getSnapshot(doc[Local]), 2)
           g == <<PanFrom[1] + dx, PanFrom[2] + dy>>
       IN /\ eng = Fine(DragMove(startPan(e0, PanFrom), g))
          /\ awareness = Put(NewAwareness, doc[Local].client, toLocal(e0, g))
          /\ pointer = [buttons |-> 1, at |-> g, wheel |-> 0,
                        down |-> [at |-> PanFrom, card |-> nullId, shiftKey |-> FALSE,
                                  im |-> [NewInteractionManager EXCEPT !.isSpacePressed = TRUE,
                                                                       !.mode = "panning"],
                                  now |-> 0, cards |-> e0.cards,
                                  stored |-> getSnapshot(doc[Local]).cards]]

InertiaNext ==
  \/ PhysicsTick
  \/ PointerUpOutside

\* The ticker calls physicsTick on every frame.
InertiaSpec == InertiaInit /\ [][InertiaNext]_vars /\ WF_vars(PhysicsTick)

\* Presence: remote peers join, move their cursors and leave while the
\* local pointer moves and the remote peer deletes cards. A peer may have
\* joined before the engine started to listen.
PresenceStates == {null, <<100, 50>>, <<30, 140>>}
PresenceInit ==
  /\ InitStore("ready", Update1, {"app"})
  /\ eng = HydrateN(NewEngine, getSnapshot(doc[Local]), 2)
  /\ im = NewInteractionManager
  /\ notified = <<>>
  /\ pointer = [buttons |-> 0, at |-> null, down |-> null, wheel |-> 0]
  /\ \E early \in SUBSET (ClientIds \ {doc[Local].client}) :
       awareness = [c \in {doc[Local].client} \cup early |-> null]
  /\ held = <<>>

PresenceNext ==
  \/ \E c \in ClientIds, state \in PresenceStates : PresenceUpdate(c, state)
  \/ \E c \in ClientIds : PresenceLeave(c)
  \/ \E g \in SpacePos : PointerMove(g)
  \/ \E id \in Range(BoardIds) : RemoteDelete(id)
  \/ Sync(Local, "B")

PresenceSpec == PresenceInit /\ [][PresenceNext]_vars

\* Zoom: the wheel is turned with the pointer on card u0 or just below it,
\* between and during drags and a pan. The scene starts unzoomed, or after
\* the wheel was turned 16 times inwards or 21 times outwards, one turn
\* short of the limits.
ZoomStarts == {<<0, FALSE>>, <<16, FALSE>>, <<21, TRUE>>}
ZoomInit ==
  /\ InitStore("ready", Update1, {"app"})
  /\ \E z \in ZoomStarts :
       eng = WheelN(HydrateN(NewEngine, getSnapshot(doc[Local]), 2), z[1], z[2], <<30, 140>>)
  /\ im = NewInteractionManager
  /\ notified = <<>>
  /\ pointer = [buttons |-> 0, at |-> null, down |-> null, wheel |-> 0]
  /\ awareness = NewAwareness
  /\ held = <<>>

\* The wheel is turned where the pointer is.
Wheel(deltaYPositive) ==
  /\ pointer.at # null
  /\ pointer.wheel < MaxWheel
  /\ Returns([World(Local) EXCEPT
                !.eng = wheel(@, deltaYPositive, pointer.at[1], pointer.at[2])],
             Op("wheel", Local, IF deltaYPositive THEN "out" ELSE "in"))
  /\ pointer' = [pointer EXCEPT !.wheel = @ + 1]

\* A gesture starts while the viewport has no velocity, so the viewport is
\* panned in one gesture at most.
ZoomNext ==
  \/ \E deltaYPositive \in BOOLEAN : Wheel(deltaYPositive)
  \/ \E button \in {0, 1} :
       PointerDown(button, FALSE) /\ log = {}
         /\ eng.viewport.vx = 0 /\ eng.viewport.vy = 0
  \/ \E g \in SpacePos : PointerMove(g)
  \/ PointerUp

ZoomSpec == ZoomInit /\ [][ZoomNext]_vars

\* A rubber band is drawn on the empty canvas while the wheel is turned and
\* the ticker runs. No card is touched and the viewport is not panned, so
\* every velocity is zero and a tick only hands the viewport's position and
\* scale to the world container.
BandNext ==
  \/ PointerDown(0, FALSE)
  \/ \E g \in DrawPos : PointerMove(g)
  \/ PointerUp
  \/ \E deltaYPositive \in BOOLEAN : Wheel(deltaYPositive)
  \/ PhysicsTick

BandSpec == SceneInit /\ [][BandNext]_vars

\* ------------------------------------------------------------------------
\* Properties of the replicated store
\* ------------------------------------------------------------------------
Received(r, u) ==
  /\ u.structs \subseteq ItemsOf(doc[r]) \cup doc[r].pend
  /\ u.ds \subseteq doc[r].ds \cup doc[r].pendDs

AllReceived == \A r \in Peers, u \in log : Received(r, u)

\* r has received u and every transaction u's author had seen
ReceivedWithPast(r, u) ==
  /\ Received(r, u)
  /\ \A v \in log : {it.id : it \in v.structs} \subseteq u.ctx => Received(r, v)

LogItems == UNION {u.structs : u \in log}
LogDeletes == UNION {u.ds : u \in log}
Concurrent(u1, u2) ==
  /\ {it.id : it \in u1.structs} \cap u2.ctx = {}
  /\ {it.id : it \in u2.structs} \cap u1.ctx = {}

\* C1: once every replica has received every committed transaction (in any
\* order, after any delay, any number of times), all replicas' snapshots
\* are identical.
C1_Convergence ==
  AllReceived => \A r1, r2 \in Peers : getSnapshot(doc[r1]) = getSnapshot(doc[r2])

\* Two peers have written the same key concurrently and then received
\* everything.
C1_Witness ==
  /\ AllReceived
  /\ \E a, b \in LogItems :
       /\ a.id[1] # b.id[1]
       /\ a.map = b.map /\ a.key = b.key /\ a.origin = b.origin

\* C2: records written under different keys coexist. createCard never
\* writes a key that another record was created under, and a record whose
\* key was never written concurrently, that no later write replaced and no
\* delete removed is present, with the content written, in the snapshot of
\* every peer that has received it and what its author had seen; every
\* record sits under its own id.
C2_DifferentKeysCoexist ==
  /\ \A a, b \in LogItems \cup Update0.structs :
       (a # b /\ a.map = "cards" /\ b.map = "cards" /\ a.origin = NoId /\ b.origin = NoId)
         => a.key # b.key
  /\ \A u \in log : \A it \in u.structs :
       (/\ it.id \notin LogDeletes
        /\ \A o \in LogItems : o.origin # it.id
        /\ \A o1, o2 \in LogItems \cup Update0.structs :
             (o1 # o2 /\ o1.map = it.map /\ o1.key = it.key /\ o2.map = it.map /\ o2.key = it.key)
               => o1.origin # o2.origin)
         => \A r \in Peers : ReceivedWithPast(r, u) =>
              /\ YHas(doc[r], it.map, it.key)
              /\ YGet(doc[r], it.map, it.key) = it.val
  /\ \A r \in Peers : \A m \in MapNames : \A k \in YKeys(doc[r], m) :
       YGet(doc[r], m, k).id = k

\* Each peer created a card while it had not received the other's, and both
\* peers now hold both cards.
C2_Witness ==
  \E u1, u2 \in log : \E a \in u1.structs, b \in u2.structs :
    /\ a.id[1] # b.id[1] /\ a.map = "cards" /\ b.map = "cards"
    /\ a.origin = NoId /\ b.origin = NoId
    /\ Concurrent(u1, u2)
    /\ \A r \in Peers : /\ YHas(doc[r], "cards", a.key) /\ YGet(doc[r], "cards", a.key) = a.val
                        /\ YHas(doc[r], "cards", b.key) /\ YGet(doc[r], "cards", b.key) = b.val

NotFoundOps == {"updateCard", "updateCardPosition", "deleteCard", "deleteConnection",
                "deleteStroke"}
MapOfOp(op) == IF op \in {"updateCard", "updateCardPosition", "deleteCard"} THEN "cards"
               ELSE IF op = "deleteConnection" THEN "connections" ELSE "strokes"

\* C4: updateCard, updateCardPosition, deleteCard, deleteConnection and
\* deleteStroke of an id that is not a key of the map leave the snapshot of
\* all three maps unchanged, emit no update and notify no listener.
C4_NotFoundNoOp ==
  [][(/\ lastOp'.op \in NotFoundOps
      /\ ~YHas(doc[lastOp'.peer], MapOfOp(lastOp'.op), lastOp'.key))
       => /\ getSnapshot(doc'[lastOp'.peer]) = getSnapshot(doc[lastOp'.peer])
          /\ log' = log
          /\ calls' = NoCalls]_vars

\* updateCard has been called with the id of a card the peer does not hold.
C4_Witness ==
  /\ lastOp.op = "updateCard"
  /\ ~YHas(doc[lastOp.peer], "cards", lastOp.key)

\* C5: a listener is invoked once on subscribe with the current snapshot
\* and after every transaction that changes the store, local or remote,
\* with the snapshot that includes it; once unsubscribed it is not invoked.
C5_Subscription ==
  /\ \A l \in changeListeners : lastSnap[l] = getSnapshot(doc[Local])
  /\ \A l \in unsubscribed : calls[l] = 0
  /\ lastOp.op = "subscribe" => calls[lastOp.key] = 1

\* A subscribed listener has just been notified of a transaction received
\* from the peer.
C5_Witness ==
  /\ lastOp.op = "receive" /\ lastOp.peer = Local
  /\ "l1" \in changeListeners /\ calls["l1"] >= 1

\* C6: every listener is invoked at most once per transaction.
C6_AtMostOncePerTransaction == \A l \in Listeners : calls[l] <= 1

\* C7: a reload at any point yields, once the fresh store is initialised
\* with no peer connected, the snapshot last observed before the reload.
C7_ReloadRecoversSnapshot ==
  (preReload.valid /\ initPc = "ready") => getSnapshot(doc[Local]) = preReload.snap

\* C8: when the local persistence fails, init() neither completes as if the
\* store were durable nor stays blocked: it can run on to report the error.
InitProgress == InitStart \/ PersistSynced
C8_DurabilityFailureSurfaced ==
  persist = "failed" => (initPc # "ready" /\ ENABLED InitProgress)

\* ------------------------------------------------------------------------
\* Properties of the scene
\* ------------------------------------------------------------------------
ConnectionItems(u) == {it \in u.structs : it.map = "connections"}
ConnectionNotices(n) == {i \in DOMAIN n : n[i].cb = "onConnectionCreated"}

\* C3: createConnection is idempotent in the engine and in the store. After
\* a call for the pair (a,b) the one connection keyed a-b exists, from a to
\* b; a call that finds it there leaves the connections of the scene and of
\* the store as they were, commits no transaction on the connections and
\* does not notify the persistence collaborator. (The engine's call is made
\* by a pointer-up on a card, whose handler may besides end a drag.)
C3_CreateConnectionIdempotent ==
  [][/\ lastOp'.op = "engine.createConnection" =>
          LET id == lastOp'.key
          IN /\ id \in DOMAIN eng'.connections
             /\ eng'.connections[id] =
                  [id |-> id, fromId |-> im.connectionStartId, toId |-> hitCard(eng, pointer.at)]
             /\ YHas(doc'[Local], "connections", id)
             /\ id \in DOMAIN eng.connections =>
                  /\ eng'.connections = eng.connections
                  /\ getSnapshot(doc'[Local]).connections = getSnapshot(doc[Local]).connections
                  /\ \A u \in log' \ log : ConnectionItems(u) = {}
                  /\ ConnectionNotices(notified') = {}
     /\ lastOp'.op = "createConnection" =>
          LET r == lastOp'.peer
              id == lastOp'.key
          IN /\ YHas(doc'[r], "connections", id)
             /\ YGet(doc'[r], "connections", id).id = id
             /\ YHas(doc[r], "connections", id) =>
                  /\ doc' = doc
                  /\ log' = log
                  /\ idbQueue' = idbQueue
                  /\ calls' = NoCalls
                  /\ eng' = eng]_vars

\* The connect tool has joined u0 to w0, and now joins them a second time.
C3_Witness ==
  /\ lastOp = Op("engine.createConnection", Local, ConnId("u0", "w0"))
  /\ ConnectionNotices(notified) = {}
  /\ ConnId("u0", "w0") \in DOMAIN eng.connections
  /\ \E u \in log : \E it \in ConnectionItems(u) :
       it.key = ConnId("u0", "w0") /\ it.id[1] = doc[Local].client

StrokeIds(e) == {e.strokes[i].id : i \in DOMAIN e.strokes}
Reconciled(e, snap) ==
  /\ DOMAIN e.cards = DOMAIN snap.cards
  /\ DOMAIN e.connections = DOMAIN snap.connections
  /\ StrokeIds(e) = DOMAIN snap.strokes
Snapshots == {getSnapshot(doc[r]) : r \in Peers} \cup {EmptySnapshot}

\* C9: hydrate reconciles the scene to the snapshot. Whatever the scene
\* holds, after hydrate the ids of its cards, connections and strokes are
\* those of the snapshot: for the snapshot the store has just notified, and
\* for the snapshot of either peer's document or an empty one.
C9_HydrateReconciles ==
  /\ (lastOp.op = "receive" /\ lastOp.peer = Local /\ calls["app"] > 0)
       => Reconciled(eng, lastSnap["app"])
  /\ \A snap \in Snapshots :
       Reconciled(hydrate(eng, snap.cards, snap.connections, snap.strokes), snap)

\* A received update has taken card u0 out of the scene and put a stroke in.
C9_Witness ==
  /\ lastOp.op = "receive" /\ lastOp.peer = Local /\ calls["app"] > 0
  /\ "u0" \notin DOMAIN eng.cards
  /\ StrokeIds(eng) # {}

\* What hydrate may do to a card that is in the scene before and after
HydrateFrame(e1, e2, snap) ==
  \A id \in DOMAIN e1.cards \cap DOMAIN e2.cards :
    LET c1 == e1.cards[id]
        c2 == e2.cards[id]
    IN /\ c2.x = c1.x /\ c2.y = c1.y /\ c2.vx = c1.vx /\ c2.vy = c1.vy
       /\ c2.isDragging = c1.isDragging
       /\ c1.isDragging => c2.targetX = c1.targetX /\ c2.targetY = c1.targetY
       /\ ~c1.isDragging => c2.targetX = snap.cards[id].x /\ c2.targetY = snap.cards[id].y

\* C10: hydrate never snaps a position and never fights a local drag. For
\* a card already in the scene it leaves position and velocity alone and
\* sets the target position to the snapshot's; for a card being dragged it
\* leaves the target position alone too. This holds of every update
\* received, and of hydrate applied to the snapshot of either peer's
\* document.
C10_HydrateKeepsPosition ==
  /\ [][(lastOp'.op = "receive" /\ lastOp'.peer = Local /\ calls'["app"] > 0)
          => HydrateFrame(eng, eng', lastSnap'["app"])]_vars
  /\ [](\A snap \in Snapshots :
          HydrateFrame(eng, hydrate(eng, snap.cards, snap.connections, snap.strokes), snap))

\* While u0 is dragged an update arrives that puts it elsewhere.
C10_Witness ==
  /\ lastOp.op = "receive" /\ lastOp.peer = Local /\ calls["app"] > 0
  /\ "u0" \in DOMAIN eng.cards
  /\ eng.cards["u0"].isDragging
  /\ lastSnap["app"].cards["u0"].x # eng.cards["u0"].targetX

\* ------------------------------------------------------------------------
\* Properties of the gestures
\* ------------------------------------------------------------------------
\* A pointer-up is handled in this step.
PointerReleased == pointer.buttons # 0 /\ pointer'.buttons = 0

\* When the button went down the cards were at rest at their stored
\* positions, nothing was selected, and the pointer was on a card.
AtRestOnCard(d) ==
  /\ d.card # nullId
  /\ d.im.selectedCardIds = {}
  /\ DOMAIN d.cards = DOMAIN d.stored
  /\ \A id \in DOMAIN d.cards :
       LET c == d.cards[id]
       IN /\ c.x = d.stored[id].x /\ c.y = d.stored[id].y
          /\ c.targetX = c.x /\ c.targetY = c.y
          /\ c.vx = 0 /\ c.vy = 0 /\ ~c.isDragging

\* handleCardDown started a drag: not with Space held, not as the second
\* click of a double click, not with the connect tool.
DragStarted(d) ==
  /\ ~d.im.isSpacePressed
  /\ ~(d.im.lastClickedCardId = d.card /\ d.now - d.im.lastClickTime < doubleClickMs)
  /\ d.im.mode # "connecting"

\* The released card's stored position is where it was plus the pointer's
\* displacement; the other cards are where they were.
DragRoundTrip(d) ==
  LET from == toLocal(eng, d.at)
      to == toLocal(eng, pointer.at)
      stored == getSnapshot(doc'[Local]).cards
  IN /\ d.card \in DOMAIN stored
     /\ stored[d.card].x = d.stored[d.card].x + (to[1] - from[1])
     /\ stored[d.card].y = d.stored[d.card].y + (to[2] - from[2])
     /\ \A id \in DOMAIN d.cards \ {d.card} :
          /\ id \in DOMAIN stored /\ id \in DOMAIN eng'.cards
          /\ stored[id].x = d.stored[id].x /\ stored[id].y = d.stored[id].y
          /\ eng'.cards[id].x = d.cards[id].x /\ eng'.cards[id].y = d.cards[id].y
          /\ eng'.cards[id].targetX = d.cards[id].targetX
          /\ eng'.cards[id].targetY = d.cards[id].targetY

\* C11: a single-card drag round-trips through the store. With the cards at
\* rest at their stored positions and nothing selected, a pointer-down on a
\* card that starts a drag, pointer moves and pointer-up leave the card's
\* stored position displaced as the pointer was, and every other card's
\* stored, runtime and target position unchanged.
C11_DragRoundTrip ==
  [][(PointerReleased /\ AtRestOnCard(pointer.down) /\ DragStarted(pointer.down))
       => DragRoundTrip(pointer.down)]_vars

\* Card u0 of the untouched board has been dragged 300 to the right.
C11_Witness ==
  /\ lastOp.op = "pointerup"
  /\ Cardinality(log) = 1
  /\ getSnapshot(doc[Local]).cards["u0"].x = Card0.x + 300
  /\ getSnapshot(doc[Local]).cards["w0"].x = Card1.x
  /\ im.selectedCardIds = {"u0"}

\* ------------------------------------------------------------------------
\* Properties of the eraser
\* ------------------------------------------------------------------------
RECURSIVE QuadIds(_)
QuadIds(q) ==
  {q.objects[i].item.id : i \in DOMAIN q.objects}
    \cup UNION {QuadIds(q.nodes[i]) : i \in DOMAIN q.nodes}

StoredStrokes(r) == getSnapshot(doc[r]).strokes

\* The stroke was finished at this peer: its record was written by this
\* session's client.
DrawnHere(id) ==
  /\ YHas(doc[Local], "strokes", id)
  /\ LastItem(doc[Local], "strokes", id).id[1] = doc[Local].client

NearStroke(p, points) ==
  \E j \in 1..(Len(points) - 1) :
    distToSegmentBelow(p[1], p[2], points[j][1], points[j][2],
                       points[j + 1][1], points[j + 1][2], radius * Tenth)

\* The pointer move about to be handled is an eraseAt at ErasePoint
EraseStep == lastOp'.op = "pointermove" /\ im.mode = "erasing" /\ pointer.buttons = 1
ErasePoint == <<toLocal(eng, pointer'.at)[1] * Tenth, toLocal(eng, pointer'.at)[2] * Tenth>>

\* C12: erasing a locally drawn stroke removes it everywhere. When eraseAt
\* is called at a point closer than the erase radius to a segment of a
\* stroke that was drawn and finished here, then afterwards no stroke with
\* that id is in the runtime stroke list, in the stroke spatial index or in
\* the strokes map of the store.
C12_EraseLocalStroke ==
  [][EraseStep =>
       \A id \in DOMAIN StoredStrokes(Local) :
         (DrawnHere(id) /\ NearStroke(ErasePoint, StoredStrokes(Local)[id].points))
           => /\ id \notin StrokeIds(eng')
              /\ id \notin QuadIds(eng'.strokeQuadtree)
              /\ ~YHas(doc'[Local], "strokes", id)]_vars

\* A stroke drawn here has just been erased: its record, written by this
\* client, is deleted and the scene and the index are empty of strokes.
C12_Witness ==
  /\ lastOp.op = "pointermove" /\ im.mode = "erasing" /\ pointer.buttons = 1
  /\ \E mk \in DOMAIN doc[Local].lists :
       /\ mk[1] = "strokes"
       /\ LastItem(doc[Local], "strokes", mk[2]).id[1] = doc[Local].client
       /\ LastItem(doc[Local], "strokes", mk[2]).id \in doc[Local].ds
       /\ mk[2] \notin StrokeIds(eng)
       /\ mk[2] \notin QuadIds(eng.strokeQuadtree)

\* The runtime strokes that are finished: their record is in the store
FinishedStrokes == {i \in DOMAIN eng.strokes : eng.strokes[i].id \in DOMAIN StoredStrokes(Local)}

\* C13: erase-through covers every stroke in the scene. An eraseAt removes
\* every finished runtime stroke that has a segment closer to the point than
\* the erase radius, however the stroke entered the scene (drawn here or
\* hydrated from a peer's update), and removes no stroke whose segments are
\* all at the radius or farther.
C13_EraseCoversEveryStroke ==
  [][EraseStep =>
       \A i \in FinishedStrokes :
         IF NearStroke(ErasePoint, eng.strokes[i].points)
         THEN eng.strokes[i].id \notin StrokeIds(eng')
         ELSE eng.strokes[i].id \in StrokeIds(eng')]_vars

\* ------------------------------------------------------------------------
\* Properties of the spatial index
\* ------------------------------------------------------------------------
\* Queries: inside the deep cell, across a quadrant's midline, starting at
\* the centre of the world, ending at it, the whole world, an empty corner
Queries == {Rect(-30100, -30100, 200, 150), Rect(-25050, -30050, 100, 100),
            Rect(0, 0, 50, 50), Rect(-50, -50, 50, 50),
            Rect(-50000, -50000, 100000, 100000), Rect(40000, 40000, 10, 10)}

Retrieved(q, Q) == {retrieve(q, Q)[i].id : i \in DOMAIN retrieve(q, Q)}

\* C14: Quadtree retrieval has no false negatives. After any inserts and
\* removes of rectangles inside the world bounds, retrieve(Q) returns every
\* entry the tree was given and still holds whose bounds intersect Q, for
\* entries kept in a node, moved down into quadrants or straddling a
\* midline alike.
C14_RetrieveNoFalseNegatives ==
  \A Q \in Queries : \A id \in DOMAIN held :
    intersects(held[id], Q) => id \in Retrieved(eng.cardQuadtree, Q)

\* The tree has split twice or more, holds an entry that stayed at the root
\* and one that stayed in a quadrant, has lost an entry to remove, and a
\* query inside the deep cell finds an entry without returning them all.
C14_Witness ==
  /\ held # <<>> /\ Cardinality(DOMAIN held) < uuidNext - 1
  /\ eng.cardQuadtree.nodes # <<>>
  /\ eng.cardQuadtree.objects # <<>>
  /\ eng.cardQuadtree.nodes[2].nodes # <<>>
  /\ eng.cardQuadtree.nodes[2].objects # <<>>
  /\ LET got == Retrieved(eng.cardQuadtree, Rect(-30100, -30100, 200, 150))
     IN /\ \E id \in got : held[id] = Deep
        /\ \E id \in DOMAIN held : id \notin got

\* C15: deleting a card removes its spatial-index entry. After removeCard,
\* called directly or by a hydrate whose snapshot lacks the card, the card
\* index holds no entry for the id: the ids in the card index are ids of
\* cards of the scene.
C15_CardIndexHoldsSceneCards == QuadIds(eng.cardQuadtree) \subseteq DOMAIN eng.cards

\* The card's rectangle at its runtime position overlaps the rectangle
Overlaps(card, Q) ==
  /\ card.x < Q.x + Q.width /\ card.x + cardWidth > Q.x
  /\ card.y < Q.y + Q.height /\ card.y + cardHeight > Q.y

\* Rubber bands: over the first cards left of the origin, over the cards at
\* the origin, across the origin
Bands == {Rect(-350, -350, 100, 100), Rect(0, 0, 400, 200), Rect(-150, -200, 300, 300)}

\* C16: getCardsInRect is exact. Whatever the cards are doing (at rest,
\* moving to a target, dragged), getCardsInRect returns the ids of exactly
\* the cards whose rectangle at the runtime position overlaps the given
\* rectangle, each id once.
C16_GetCardsInRectExact ==
  \A Q \in Bands :
    LET found == getCardsInRect(eng, Q.x, Q.y, Q.width, Q.height)
    IN /\ Range(found) = {id \in DOMAIN eng.cards : Overlaps(eng.cards[id], Q)}
       /\ Len(found) = Cardinality(Range(found))

\* ------------------------------------------------------------------------
\* Properties of the engine's operations
\* ------------------------------------------------------------------------
\* The pointer-up about to be handled calls the engine's createConnection
\* with a source that is not a card of the scene
ConnectFromUnknown ==
  lastOp'.op = "engine.createConnection" /\ im.connectionStartId \notin DOMAIN eng.cards

\* C17: engine operations on unknown ids are no-ops. A createConnection
\* whose source is not the id of a runtime card leaves the runtime cards,
\* the connections, the card index and the store as they were; so do
\* startDrag, updateCardPosition, updateCardText and removeCard for an id
\* that is not a runtime card.
C17_UnknownIdNoOp ==
  [][/\ ConnectFromUnknown =>
          /\ eng'.connections = eng.connections
          /\ eng'.cards = eng.cards
          /\ eng'.cardQuadtree = eng.cardQuadtree
          /\ getSnapshot(doc'[Local]) = getSnapshot(doc[Local])
     /\ \A id \in Range(BoardIds) \ DOMAIN eng.cards :
          /\ Engine_updateCardPosition(eng, id, 100, 50) = eng
          /\ updateCardText(eng, id, "hi") = eng
          /\ removeCard(eng, id) = eng
          /\ \A g \in PointerPos : startDrag(eng, g, id, {}) = eng]_vars

\* ------------------------------------------------------------------------
\* Properties of a drag in progress
\* ------------------------------------------------------------------------
\* The button is held since a pointer-down on a card that started a drag
DragHeld ==
  /\ pointer.buttons # 0 /\ pointer.down # null
  /\ pointer.down.card # nullId
  /\ DragStarted(pointer.down)

\* C18: a multi-card drag is rigid. From the pointer-down that starts the
\* drag until release, the card under the pointer is selected, every
\* selected card is dragged with its own offset (the pointer's world
\* position minus the card's position at drag start), the runtime position
\* of each is its position at drag start plus the pointer's displacement,
\* and the cards outside the selection are not dragged and stay where they
\* were.
C18_RigidMultiDrag ==
  DragHeld =>
    LET d == pointer.down
        from == toLocal(eng, d.at)
        to == toLocal(eng, pointer.at)
    IN /\ d.card \in im.selectedCardIds
       /\ \A id \in DOMAIN eng.cards :
            LET c == eng.cards[id]
            IN IF id \in im.selectedCardIds
               THEN /\ c.isDragging
                    /\ c.dragOffsetX = from[1] - d.cards[id].x
                    /\ c.dragOffsetY = from[2] - d.cards[id].y
                    /\ c.x = to[1] - c.dragOffsetX /\ c.y = to[2] - c.dragOffsetY
                    /\ c.x - d.cards[id].x = to[1] - from[1]
                    /\ c.y - d.cards[id].y = to[2] - from[2]
               ELSE /\ ~c.isDragging
                    /\ c.x = d.cards[id].x /\ c.y = d.cards[id].y

\* Both cards are selected and dragged, and the pointer has moved them.
C18_Witness ==
  /\ DragHeld
  /\ im.selectedCardIds = {"u0", "w0"}
  /\ pointer.at # pointer.down.at
  /\ \A id \in {"u0", "w0"} : eng.cards[id].isDragging /\ eng.cards[id].y # pointer.down.cards[id].y

\* C19: pointer-up returns the state machine to Idle. Whenever a pointer-up
\* is handled while the mode is Dragging, Panning or Selecting, the engine's
\* gesture is ended (no card is dragged, the viewport is not panned) and
\* the mode is Idle when the handler returns.
C19_PointerUpReturnsToIdle ==
  [][(PointerReleased /\ im.mode \in {"dragging", "panning", "selecting"})
       => /\ im'.mode = "idle"
          /\ \A id \in DOMAIN eng'.cards : ~eng'.cards[id].isDragging
          /\ ~eng'.viewport.isDragging]_vars

\* ------------------------------------------------------------------------
\* Properties of the connect tool
\* ------------------------------------------------------------------------
StoredConnections == getSnapshot(doc[Local]).connections

\* The pointer-down was on a card with the connect tool, and was neither
\* taken by the Space key nor the second click of a double click
ConnectDown(d) ==
  /\ d.card # nullId
  /\ d.im.mode = "connecting"
  /\ ~d.im.isSpacePressed
  /\ ~(d.im.lastClickedCardId = d.card /\ d.now - d.im.lastClickTime < doubleClickMs)

\* After the step the connection a-b, and besides it only what was there
\* before, is in the scene and in the store, written by at most one
\* transaction, and none if the store held it.
Connected(a, b) ==
  LET id == ConnId(a, b)
      stored == getSnapshot(doc'[Local]).connections
  IN /\ DOMAIN eng'.connections = DOMAIN eng.connections \cup {id}
     /\ eng'.connections[id] = [id |-> id, fromId |-> a, toId |-> b]
     /\ DOMAIN stored = DOMAIN StoredConnections \cup {id}
     /\ stored[id] = [id |-> id, fromId |-> a, toId |-> b]
     /\ \A k \in DOMAIN StoredConnections : stored[k] = StoredConnections[k]
     /\ IF id \in DOMAIN StoredConnections THEN log' = log
        ELSE \E u \in log' \ log :
               /\ log' = log \cup {u}
               /\ Cardinality(u.structs) = 1
               /\ \A it \in u.structs : it.map = "connections" /\ it.key = id

\* C20: completing a connection. With the connect tool, a pointer-down on
\* card A records A as the pending source and creates no connection (no
\* pointer-down does); the pointer-up that follows on a different card B
\* creates exactly the connection from A to B, in the scene and as one
\* store record if the store did not hold it, and clears the pending
\* source.
C20_CompleteConnection ==
  [][/\ lastOp'.op = "pointerdown" =>
          /\ eng'.connections = eng.connections
          /\ getSnapshot(doc'[Local]).connections = StoredConnections
          /\ ConnectDown(pointer'.down) => im'.connectionStartId = pointer'.down.card
     /\ (PointerReleased /\ ConnectDown(pointer.down)) =>
          LET b == hitCard(eng, pointer.at)
          IN (b # nullId /\ b # pointer.down.card) =>
               /\ Connected(pointer.down.card, b)
               /\ im'.connectionStartId = nullId]_vars

\* The connect tool has just joined u0 to w0 for the first time: the
\* pointer went down on u0 and up on w0, and the record is this client's.
C20_Witness ==
  /\ lastOp = Op("engine.createConnection", Local, ConnId("u0", "w0"))
  /\ ConnectionNotices(notified) # {}
  /\ im.connectionStartId = nullId
  /\ eng.connections[ConnId("u0", "w0")].fromId = "u0"
  /\ \E u \in log : \E it \in ConnectionItems(u) :
       it.key = ConnId("u0", "w0") /\ it.id[1] = doc[Local].client

\* C21: cancelling a connection. With the connect tool, after a pointer-down
\* on card A, a pointer-up on A itself or on the empty canvas creates no
\* connection and clears the pending source; so a pointer-up that creates a
\* connection from A ends a gesture whose pointer-down was on A.
C21_CancelClearsSource ==
  [][/\ (PointerReleased /\ ConnectDown(pointer.down)
           /\ hitCard(eng, pointer.at) \in {nullId, pointer.down.card}) =>
          /\ eng'.connections = eng.connections
          /\ getSnapshot(doc'[Local]).connections = StoredConnections
          /\ im'.connectionStartId = nullId
     /\ lastOp'.op = "engine.createConnection" =>
          pointer.down.card = im.connectionStartId]_vars

\* ------------------------------------------------------------------------
\* Properties of the pointer-down on a card
\* ------------------------------------------------------------------------
\* The step handles a pointer-down on a card while Space is not held
CardDown == lastOp'.op = "pointerdown" /\ lastOp'.key # nullId /\ ~im.isSpacePressed

\* The click about to be handled is a double click on card X: the recorded
\* click was on X less than 500 ms ago
DoubleClick(X) == im.lastClickedCardId = X /\ DateNow - im.lastClickTime < 500

SomeDragging(e) == \E id \in DOMAIN e.cards : e.cards[id].isDragging

\* C22: a double click enters Editing and overrides the drag. A pointer-down
\* on card X with Space not held enters Editing, hands X to the host's
\* edit-start callback and starts no drag, if and only if the recorded card
\* click was on X and less than 500 ms earlier; a pointer-down on another
\* card, or on X 500 ms or more later, does not enter Editing.
C22_DoubleClickEntersEditing ==
  [][CardDown =>
       LET X == lastOp'.key
       IN /\ DoubleClick(X) <=> im'.mode = "editing"
          /\ DoubleClick(X) =>
               /\ im'.editingCardId = X
               /\ ~SomeDragging(eng')
               /\ eng'.cards = eng.cards
          /\ ~DoubleClick(X) => im'.editingCardId = im.editingCardId]_vars

\* Card u0 has been clicked a second time 250 ms after its recorded click,
\* and the editor is open on it with nothing dragged.
C22_Witness ==
  /\ lastOp = Op("pointerdown", Local, "u0")
  /\ pointer.down.im.lastClickedCardId = "u0"
  /\ pointer.down.now - pointer.down.im.lastClickTime = 250
  /\ im.mode = "editing" /\ im.editingCardId = "u0"
  /\ ~SomeDragging(eng)

\* C23: selection on a card pointer-down. After a pointer-down on card X
\* that is not a double click, with Space not held and the connect tool not
\* active, the selection is {X} when shift is not held and X was not
\* selected, and the previous selection plus X otherwise; the mode is
\* Dragging, and X and the rest of the resulting selection are being
\* dragged, each with its offset from the pointer, and no other card is.
C23_SelectionOnCardDown ==
  [][(CardDown /\ DragStarted(pointer'.down)) =>
       LET X == lastOp'.key
           selection == IF ~pointer'.down.shiftKey /\ X \notin im.selectedCardIds
                        THEN {X} ELSE im.selectedCardIds \cup {X}
           localPos == toLocal(eng, pointer.at)
       IN /\ im'.selectedCardIds = selection
          /\ im'.mode = "dragging"
          /\ DOMAIN eng'.cards = DOMAIN eng.cards
          /\ \A id \in DOMAIN eng.cards :
               IF id \in selection
               THEN /\ eng'.cards[id].isDragging
                    /\ eng'.cards[id].dragOffsetX = localPos[1] - eng.cards[id].x
                    /\ eng'.cards[id].dragOffsetY = localPos[2] - eng.cards[id].y
               ELSE eng'.cards[id] = eng.cards[id] /\ ~eng.cards[id].isDragging]_vars

\* Both cards were selected with the rubber band; a plain click on w0 has
\* kept both selected and drags both.
C23_Witness ==
  /\ lastOp = Op("pointerdown", Local, "w0")
  /\ ~pointer.down.shiftKey
  /\ pointer.down.im.selectedCardIds = {"u0", "w0"}
  /\ im.selectedCardIds = {"u0", "w0"}
  /\ im.mode = "dragging"
  /\ eng.cards["u0"].isDragging /\ eng.cards["w0"].isDragging

\* ------------------------------------------------------------------------
\* Properties of the Space key
\* ------------------------------------------------------------------------
SpaceKey(op) == lastOp'.op = op /\ lastOp'.key = "Space"

Banded(e, anchor, g) ==
  LET a == toLocal(e, anchor)
      b == toLocal(e, g)
  IN Range(getCardsInRect(e, Min({a[1], b[1]}), Min({a[2], b[2]}),
                          Max({a[1] - b[1], b[1] - a[1]}), Max({a[2] - b[2], b[2] - a[2]})))

\* C25: rubber-band selection. A primary-button pointer-down on the empty
\* canvas in Idle with Space not held clears the selection, enters Selecting
\* and sets the anchor; while Selecting, after every pointer-move the
\* selection is the set of cards getCardsInRect returns for the rectangle
\* spanned by the anchor and the pointer; the pointer-up that follows
\* returns to Idle and clears the anchor, the selection unchanged.
C25_RubberBand ==
  [][/\ (lastOp'.op = "pointerdown" /\ lastOp'.key = nullId /\ pointer'.buttons = 1
           /\ im.mode = "idle" /\ ~im.isSpacePressed) =>
          /\ im'.selectedCardIds = {}
          /\ im'.mode = "selecting"
          /\ im'.dragStart = pointer.at
     /\ (lastOp'.op = "pointermove" /\ im.mode = "selecting") =>
          /\ im'.selectedCardIds = Banded(eng', im.dragStart, pointer'.at)
          /\ im'.mode = "selecting" /\ im'.dragStart = im.dragStart
     /\ (PointerReleased /\ im.mode = "selecting") =>
          /\ im'.mode = "idle"
          /\ im'.dragStart = null
          /\ im'.selectedCardIds = im.selectedCardIds]_vars

\* A rubber band drawn from below the cards up to w0 has been released: both
\* cards are selected, none was ever clicked.
C25_Witness ==
  /\ lastOp.op = "pointerup"
  /\ im.mode = "idle" /\ im.dragStart = null
  /\ im.selectedCardIds = {"u0", "w0"}
  /\ im.lastClickedCardId = nullId

\* ------------------------------------------------------------------------
\* Properties of the release
\* ------------------------------------------------------------------------
\* A gesture of the engine is in progress: a card is dragged, the viewport
\* is panned or a stroke is being drawn
InGesture(e) == SomeDragging(e) \/ e.viewport.isDragging \/ e.currentStroke # null

C27_CreateCardIdempotent ==
  [][(lastOp'.op = "engine.createCard" /\ lastOp'.key \in DOMAIN eng.cards) =>
       /\ eng'.cards = eng.cards
       /\ eng'.cardOrder = eng.cardOrder
       /\ eng'.cardQuadtree = eng.cardQuadtree]_vars

\* createCard was called for u0 at the origin while u0 was being dragged
\* elsewhere: u0 is still dragged and where the pointer put it.
C27_Witness ==
  /\ lastOp = Op("engine.createCard", Local, "u0")
  /\ eng.cards["u0"].isDragging
  /\ eng.cards["u0"].y # 0
  /\ Cardinality({i \in DOMAIN eng.cardOrder : eng.cardOrder[i] = "u0"}) = 1

\* ------------------------------------------------------------------------
\* Properties of the physics tick
\* ------------------------------------------------------------------------
\* Card u0 is within half a pixel of its target: the offset lies in the
\* disc of radius 0.5
OffX == eng.cards["u0"].targetX - eng.cards["u0"].x
OffY == eng.cards["u0"].targetY - eng.cards["u0"].y
Within(p, r) ==
  /\ p[1] \in -r..r /\ p[2] \in -r..r
  /\ p[1] * p[1] + p[2] * p[2] <= r * r
NearTarget == Within(<<OffX, OffY>>, Milli \div 2)

ZeroVelocity == eng.cards["u0"].vx = 0 /\ eng.cards["u0"].vy = 0

\* The card comes within half a pixel of the target and stays there
SettlesNear == <>[]NearTarget

\* C28: physics settling. A card that is not dragged, at (0, 0) with zero
\* velocity and target (100, 100), under repeated physics ticks comes within
\* 0.5 units of the target and stays within it, and its velocity becomes
\* exactly zero and remains zero.
C28_PhysicsSettles == <>[](NearTarget /\ ZeroVelocity)

\* ------------------------------------------------------------------------
\* Properties of the wheel zoom
\* ------------------------------------------------------------------------
\* The world point that was at screen coordinate s is at s again, to the
\* rounding of one step of the viewport's position: with w = (s - x) / old,
\* |x' + w * new - s| <= 1/2
Anchored(s, x, old, xNew, new) == Abs((s - xNew) * old - (s - x) * new) * 2 <= old

\* The step is a wheel step whose new scale is clamped
Clamped ==
  LET product == RoundDiv(eng.viewport.scale
                            * (IF lastOp'.key = "out" THEN zoomOutFactor ELSE zoomInFactor),
                          ScaleUnit)
  IN product < minScale \/ product > maxScale

\* C29: zoom anchoring. On every wheel step with the pointer at screen
\* point S, the world point that projected to S before the step projects to
\* S after it, also when the new scale is clamped at the minimum or the
\* maximum; a clamped step ends at the limit.
C29_ZoomAnchored ==
  [][lastOp'.op = "wheel" =>
       /\ Anchored(pointer.at[1], eng.viewport.x, eng.viewport.scale,
                   eng'.viewport.x, eng'.viewport.scale)
       /\ Anchored(pointer.at[2], eng.viewport.y, eng.viewport.scale,
                   eng'.viewport.y, eng'.viewport.scale)
       /\ Clamped => eng'.viewport.scale \in {minScale, maxScale}]_vars

\* The wheel was turned inwards at scale 4.595 and the scale is now 5: a
\* clamped step, which has moved the viewport.
C29_Witness ==
  /\ lastOp = Op("wheel", Local, "in")
  /\ pointer.wheel = 1
  /\ eng.viewport.scale = maxScale
  /\ eng.viewport.y # WheelN(NewEngine, 16, FALSE, <<30, 140>>).viewport.y

\* C30: the zoom scale stays in range. In every reachable state, after any
\* wheel steps in and out, interleaved with drags, pans and clicks, the
\* viewport scale is at least 0.1 and at most 5.
C30_ScaleInRange ==
  eng.viewport.scale >= minScale /\ eng.viewport.scale <= maxScale

\* The wheel was turned outwards at the minimum scale, after a pan.
C30_Witness ==
  /\ lastOp = Op("wheel", Local, "out")
  /\ pointer.wheel >= 2
  /\ eng.viewport.scale = minScale
  /\ eng.viewport.vy # 0

\* ------------------------------------------------------------------------
\* Properties of a stroke in progress
\* ------------------------------------------------------------------------
\* C31: a remote change does not destroy a stroke that is being drawn.
\* Between startStroke and endStroke, whatever store notifications arrive,
\* the stroke in progress is one of the runtime strokes of the scene, with
\* all the points sampled so far.
C31_StrokeInProgressSurvives ==
  eng.currentStroke # null =>
    \E i \in DOMAIN eng.strokes :
      /\ eng.strokes[i].id = eng.currentStroke.id
      /\ eng.strokes[i].points = eng.currentStroke.points

\* ------------------------------------------------------------------------
\* Properties of the rubber band's anchor
\* ------------------------------------------------------------------------
\* C32: the rubber-band anchor is fixed in world coordinates. From the
\* pointer-down that enters Selecting to the pointer-up that leaves it, the
\* world position of the anchor corner does not change, also when the
\* viewport moves or zooms meanwhile.
C32_AnchorFixedInWorld ==
  [][(im.mode = "selecting" /\ im'.mode = "selecting") =>
       toLocal(eng', im'.dragStart) = toLocal(eng, im.dragStart)]_vars

\* ------------------------------------------------------------------------
\* Properties of the scene against the store
\* ------------------------------------------------------------------------
StoredCards == getSnapshot(doc[Local]).cards

\* C33: runtime targets follow the store. After every handled event every
\* card of the scene that is not being dragged has its target at its stored
\* position, and the scene has exactly the cards the store has.
C33_TargetsFollowStore ==
  /\ DOMAIN eng.cards = DOMAIN StoredCards
  /\ \A id \in DOMAIN eng.cards :
       ~eng.cards[id].isDragging =>
         /\ eng.cards[id].targetX = StoredCards[id].x
         /\ eng.cards[id].targetY = StoredCards[id].y

\* Card w0 was dragged and released where the remote peer had not put it,
\* while u0 was moved by the remote peer: both targets are the stored
\* positions, and u0 itself has not moved.
C33_Witness ==
  /\ lastOp.op = "pointerup"
  /\ "u0" \in DOMAIN eng.cards /\ "w0" \in DOMAIN eng.cards
  /\ eng.cards["u0"].targetX = 100 /\ eng.cards["u0"].x = 0
  /\ StoredCards["u0"].x = 100
  /\ eng.cards["w0"].targetX # 300 /\ StoredCards["w0"].x = eng.cards["w0"].targetX

\* C34: runtime stroke ids are unique. After any interleaving of startStroke,
\* continueStroke, endStroke, eraseAt and hydrate, the re-entrant hydrate of
\* a store notification included, no two runtime strokes have the same id,
\* and a stroke is taken out of the scene once only: no erase or hydrate
\* removes a second runtime stroke in its place, so every stroke the store
\* holds still has its runtime stroke.
C34_StrokeIdsUnique ==
  /\ \A i, j \in DOMAIN eng.strokes : eng.strokes[i].id = eng.strokes[j].id => i = j
  /\ \A id \in DOMAIN StoredStrokes(Local) : \E i \in DOMAIN eng.strokes : eng.strokes[i].id = id
  /\ \A i \in DOMAIN eng.strokes :
       \/ eng.strokes[i].id \in DOMAIN StoredStrokes(Local)
       \/ eng.currentStroke # null /\ eng.currentStroke.id = eng.strokes[i].id

\* A stroke drawn here has just been erased, by the re-entrant hydrate of
\* the store's notification, and the other stroke of the scene remains.
C34_Witness ==
  /\ lastOp.op = "pointermove"
  /\ im.mode = "erasing" /\ pointer.buttons = 1
  /\ Len(eng.strokes) = 1
  /\ \E mk \in DOMAIN doc[Local].lists :
       /\ mk[1] = "strokes"
       /\ LastItem(doc[Local], "strokes", mk[2]).id[1] = doc[Local].client
       /\ LastItem(doc[Local], "strokes", mk[2]).id \in doc[Local].ds
  /\ DOMAIN StoredStrokes(Local) # {}

\* ------------------------------------------------------------------------
\* Properties of the modes
\* ------------------------------------------------------------------------
\* C35: a rubber-band anchor exists only while Selecting. In every reachable
\* state, if the mode is not Selecting then dragStart is absent, also when
\* Selecting was left through a Space key-down or a tool key and not
\* through a pointer-up.
C35_AnchorOnlyWhileSelecting == im.mode # "selecting" => im.dragStart = null

\* C36: Panning mode pans. Whenever the mode is Panning, however it was
\* entered (Space held, middle button, the toolbar's Pan button), a
\* pointer-down on the empty canvas starts a viewport pan, and the
\* pointer-moves that follow while the button is held translate the viewport
\* by the pointer's displacement.
C36_PanningModePans ==
  [][/\ (lastOp'.op = "pointerdown" /\ hitCard(eng, pointer.at) = nullId /\ im.mode = "panning")
         => eng'.viewport.isDragging
     /\ (/\ lastOp'.op = "pointermove" /\ pointer.buttons # 0
         /\ pointer.down.card = nullId /\ pointer.down.im.mode = "panning")
         => /\ eng'.viewport.x - eng.viewport.x = pointer'.at[1] - pointer.at[1]
            /\ eng'.viewport.y - eng.viewport.y = pointer'.at[2] - pointer.at[2]]_vars

\* ------------------------------------------------------------------------
\* Properties of connections
\* ------------------------------------------------------------------------
\* C37: no dangling connections. When a card is deleted, by the local user
\* or by a remote transaction, every connection that has the card as source
\* or destination goes with it: a connection of the store or of the scene
\* whose fromId or toId is the deleted card is gone after the step.
Touches(c, id) == c.fromId = id \/ c.toId = id
C37_NoDanglingConnections ==
  [][\A id \in DOMAIN StoredCards \ DOMAIN getSnapshot(doc'[Local]).cards :
       /\ \A k \in DOMAIN getSnapshot(doc[Local]).connections :
            Touches(getSnapshot(doc[Local]).connections[k], id)
              => k \notin DOMAIN getSnapshot(doc'[Local]).connections
       /\ \A k \in DOMAIN eng.connections :
            Touches(eng.connections[k], id) => k \notin DOMAIN eng'.connections]_vars

\* ------------------------------------------------------------------------
\* Properties of the Quadtree
\* ------------------------------------------------------------------------
Inside(r, b) ==
  /\ r.x >= b.x /\ r.x + r.width <= b.x + b.width
  /\ r.y >= b.y /\ r.y + r.height <= b.y + b.height

\* Every quadrant is one level below its node and not below maxLevel, and
\* everything held in or below a quadrant lies inside the quadrant's bounds.
RECURSIVE QuadrantsFit(_)
QuadrantsFit(q) ==
  \A i \in DOMAIN q.nodes :
    LET n == q.nodes[i]
    IN /\ n.level = q.level + 1 /\ n.level <= maxLevel
       /\ n.bounds = split(q).nodes[i].bounds
       /\ \A k \in DOMAIN getAll(n) : Inside(held[getAll(n)[k].id], n.bounds)
       /\ QuadrantsFit(n)

\* C38: the Quadtree neither loses nor duplicates items. After any inserts
\* and removes with distinct ids, getAll holds each item inserted and not
\* removed exactly once, through every split and redistribution; an item is
\* held by a quadrant only if its bounds fit entirely within the quadrant,
\* and no node is deeper than the maximum level.
C38_QuadtreeKeepsItems ==
  LET all == getAll(eng.cardQuadtree)
  IN /\ {all[k].id : k \in DOMAIN all} = DOMAIN held
     /\ \A j, k \in DOMAIN all : all[j].id = all[k].id => j = k
     /\ eng.cardQuadtree.level = 0
     /\ QuadrantsFit(eng.cardQuadtree)

\* Eleven entries or more are held after a remove: the root has split and
\* so has its south-west quadrant, which holds entries at two levels, and
\* an entry straddling the root's midlines stays at the root.
C38_Witness ==
  /\ lastOp.op = "quadtree.remove"
  /\ Len(getAll(eng.cardQuadtree)) > capacity
  /\ Len(eng.cardQuadtree.objects) > 0
  /\ eng.cardQuadtree.nodes # <<>>
  /\ eng.cardQuadtree.nodes[2].nodes # <<>>
  /\ Len(eng.cardQuadtree.nodes[2].objects) > 0
  /\ Len(getAll(eng.cardQuadtree.nodes[2])) > Len(eng.cardQuadtree.nodes[2].objects)

\* ------------------------------------------------------------------------
\* Properties of the viewport's inertia
\* ------------------------------------------------------------------------
Released == ~eng.viewport.isDragging
Stopped == eng.viewport.vx = 0 /\ eng.viewport.vy = 0

\* C39: viewport inertia stops. After a pan is released with any velocity
\* and with no further pointer input, under repeated physics ticks each
\* velocity component becomes exactly zero after finitely many ticks, and
\* from then on a tick leaves the viewport's position as it is; while the
\* viewport is being panned a tick changes neither its position nor its
\* velocity.
C39_ViewportInertiaStops ==
  /\ Released ~> [](Released /\ Stopped)
  /\ [][(lastOp'.op = "physicsTick" /\ (~Released \/ Stopped))
          => eng'.viewport = eng.viewport]_vars

\* The pan was released at 20 pixels a frame to the right, and the viewport
\* has coasted more than 200 pixels and stopped.
C39_Witness ==
  /\ lastOp.op = "physicsTick"
  /\ Released /\ Stopped
  /\ eng.viewport.x > 200 * Milli
  /\ eng.world.x = eng.viewport.x

\* ------------------------------------------------------------------------
\* Properties of presence
\* ------------------------------------------------------------------------
PresenceChange == awareness' # awareness
PresenceStep == lastOp'.op \in {"awareness.update", "awareness.remove", "pointermove"}

\* C40: presence tracks peers without touching the document. After every
\* presence change event the remote cursors of the scene are those of the
\* peers present in the presence states other than the local peer: one for
\* each peer that joined, none for a peer that left, never one for the
\* local peer. Publishing or receiving presence commits no store
\* transaction and changes no snapshot.
C40_PresenceTracksPeers ==
  [][/\ PresenceChange =>
          DOMAIN eng'.remoteCursors = DOMAIN awareness' \ {doc'[Local].client}
     /\ PresenceStep =>
          /\ log' = log
          /\ \A r \in Peers : getSnapshot(doc'[r]) = getSnapshot(doc[r])
          /\ calls' = NoCalls]_vars

\* A peer has just left while another is present with a cursor, the local
\* cursor is published, and a card has been deleted in between.
C40_Witness ==
  /\ lastOp.op = "awareness.remove"
  /\ Cardinality(DOMAIN awareness) = 2
  /\ awareness[doc[Local].client] # null
  /\ Cardinality(DOMAIN eng.remoteCursors) = 1
  /\ \A c \in DOMAIN eng.remoteCursors : eng.remoteCursors[c] = <<100, 50>>
  /\ DOMAIN StoredCards # {"u0", "w0"}

====
